---- MODULE Spec2Model ----
(***************************************************************************)
(* Model of the client reconciliation pipeline of rmm_halo_asset_sync:     *)
(* the retry decorator (general.py), the client identity model             *)
(* (client_classes.py), the Halo request interface (halo_requests.py) and  *)
(* the two driver scripts that post missing clients with a backup trail    *)
(* (sync_clients.py and its earlier revision clients.py).                  *)
(*                                                                         *)
(* Keyword names differ between revisions of the repository (fatal /       *)
(* fatal_fail, backup_id / action_id); the model treats them as the same   *)
(* parameter.                                                              *)
(*                                                                         *)
(* The specifications share the variables: Spec runs a driver script from  *)
(* its start; SpecRetry (SpecRetryFair with fairness) calls the retry      *)
(* wrapper on its own, SpecDiff computes the missing clients of two given  *)
(* lists, SpecResume follows a run by a second one, SpecSql uses the       *)
(* backup table, SpecGet calls HaloInterface.get and SpecParse parses a    *)
(* response of the source system, each on its own.                         *)
(***************************************************************************)
EXTENDS Integers, Sequences, FiniteSets, TLC

VARIABLES
    driver,                 \* which script runs: "sync_clients", "clients", or "retry" (wrapper called on its own)
    pc,                     \* position of the script
    nsight_toplevel,        \* ini NSIGHT_CLIENTS_TOPLEVEL ("" when not configured)
    nsight_clients,         \* list of NsightClient objects
    halo_clients,           \* list of HaloClient objects
    halo_pages,             \* pages accumulated by HaloInterface.get (responses)
    page_no,                \* parameters["page_no"] of the running HaloInterface.get
    comparison_variables,   \* Client.comparison_variables (class attribute)
    missing_clients,        \* list computed by the diff
    idx,                    \* position of the running for-loop over missing_clients (1-based)
    client_post_success,    \* list of booleans (sync_clients.py)
    backup_id,              \* backup_id / action_id of the record being processed
    sql_backup_table,       \* rows of the backup table
    sql_sessions_table,     \* rows of the sessions table
    events,                 \* history of observable effects: requests sent, rows written, log records
    exit_code,              \* -1 while running, else the process exit code
    DRYRUN,                 \* env DRYRUN
    halo_client_token,      \* "none" before the token request, then "token" or "empty" (a dict without fields)
    rt                      \* activation record of the retry wrapper

vars == <<driver, pc, nsight_toplevel, nsight_clients, halo_clients, halo_pages, page_no,
          comparison_variables, missing_clients, idx, client_post_success, backup_id,
          sql_backup_table, sql_sessions_table, events, exit_code, DRYRUN, halo_client_token, rt>>

driver_vars == <<driver, pc, nsight_toplevel, nsight_clients, halo_clients, halo_pages, page_no,
                 comparison_variables, missing_clients, idx, client_post_success, backup_id,
                 sql_backup_table, sql_sessions_table, events, exit_code, DRYRUN, halo_client_token>>

(***************************************************************************)
(* Bounds                                                                  *)
(***************************************************************************)
MaxSource == 2          \* longest source (N-sight) client list
MaxTarget == 2          \* most clients in the target (Halo) listing, over all its pages
MaxToplevels == 2       \* most toplevels in the target listing, over all its pages
MaxRetries == 4         \* largest n_retries tried on the wrapper on its own
MaxRows == 2            \* most rows of the backup table when the table is used on its own
MaxXmlElements == 2     \* most elements inside <items> of a source response parsed on its own
MaxDiffSource == 3      \* longest source client list given to the diff on its own

(***************************************************************************)
(* Python values.  A value is a str or an int; str() and str.lower() are   *)
(* tabulated on the values that occur.                                     *)
(***************************************************************************)
PyS(s) == [t |-> "str", s |-> s, i |-> 0]
PyI(n) == [t |-> "int", s |-> "", i |-> n]
PyBool(b) == [t |-> "bool", s |-> "", i |-> IF b THEN 1 ELSE 0]

IntStr(n) ==
    CASE n = 0 -> "0" [] n = 1 -> "1" [] n = 2 -> "2" [] n = 3 -> "3" [] n = 4 -> "4"
      [] n = 5 -> "5" [] n = 6 -> "6" [] n = 7 -> "7" [] n = 8 -> "8" [] n = 9 -> "9"
      [] OTHER -> "int"

PyStr(v) == IF v.t = "str" THEN v.s ELSE IntStr(v.i)

Lower(s) ==
    CASE s = "Acme" -> "acme"
      [] s = "ACME" -> "acme"
      [] s = "Globex" -> "globex"
      [] OTHER -> s

SourceNames == {"Acme", "Globex"}       \* client names in the source system
TargetNames == {"acme", "Globex"}       \* client names in the target system
ToplevelNames == {"N-sight", "Other"}
ToplevelIds == {1, 2}

(***************************************************************************)
(* client_classes.Client                                                   *)
(***************************************************************************)
default_comparison_variables == <<"name">>

GetAttribute(client, variable) ==
    IF variable = "name" THEN client.name ELSE client.toplevel_id

\* mutant: compares the string representations without lower-casing them
ClientEqCaseSensitive(self, other, variables) ==
    \A k \in 1..Len(variables) :
        PyStr(GetAttribute(self, variables[k])) = PyStr(GetAttribute(other, variables[k]))

\* mutant: compares the name whatever the comparison variables are
ClientEqNameOnly(self, other, variables) ==
    Lower(PyStr(self.name)) = Lower(PyStr(other.name))

\* mutant: reads the comparison fields of `other` as lower-cased but not of `self`
ClientEqLowerOther(self, other, variables) ==
    \A k \in 1..Len(variables) :
        PyStr(GetAttribute(self, variables[k])) = Lower(PyStr(GetAttribute(other, variables[k])))

\* Client.__eq__: all([str(self.v).lower() == str(other.v).lower() for v in comparison_variables])
ClientEq(self, other, variables) ==
    LET matching_fields == [k \in 1..Len(variables) |->
            Lower(PyStr(GetAttribute(self, variables[k])))
                = Lower(PyStr(GetAttribute(other, variables[k])))]
    IN  \A k \in 1..Len(variables) : matching_fields[k]

NsightClient(id, name) ==
    [kind |-> "NsightClient", id |-> PyI(id), name |-> PyS(name), toplevel_id |-> PyS("")]

HaloClient(id, name, toplevel) ==
    [kind |-> "HaloClient", id |-> PyI(id), name |-> PyS(name), toplevel_id |-> PyI(toplevel)]

halo_colour == "#a75ded"

\* the payload leaves the toplevel_id empty
get_post_payload_without_toplevel(client) ==
    [name |-> client.name.s, toplevel_id |-> "", colour |-> halo_colour]

\* NsightClient.get_post_payload
get_post_payload(client) ==
    [name |-> client.name.s, toplevel_id |-> PyStr(client.toplevel_id), colour |-> halo_colour]

\* json.dumps of a Python object: the text is represented by the object it encodes
JsonDumps(object) == [json |-> object]

\* `client in clients`: list.__contains__ compares each element with ==
ListContains(clients, client, variables) ==
    \E j \in 1..Len(clients) : ClientEq(clients[j], client, variables)

\* mutant: the comprehension walks the source list from the end
MissingReversed(source, target, variables) ==
    LET kept == SelectSeq(source, LAMBDA client : ~ListContains(target, client, variables))
    IN  [k \in 1..Len(kept) |-> kept[Len(kept) + 1 - k]]

\* [client for client in nsight_clients if client not in halo_clients]
Missing(source, target, variables) ==
    SelectSeq(source, LAMBDA client : ~ListContains(target, client, variables))

(***************************************************************************)
(* general.retry_function                                                  *)
(***************************************************************************)
default_n_retries == 3

\* exception classes that the wrapped operations raise
ExceptionClasses == {"ConnectionError", "requests.ConnectionError", "ValueError"}

\* mutant: every exception is handled as a listed one
CatchesEverything(exceptions, class) == TRUE

\* `except exceptions`: "Exception" catches every class, otherwise the listed ones
Catches(exceptions, class) == "Exception" \in exceptions \/ class \in exceptions

\* get_retry_argument: wrapped function's kwargs, then the instance attribute, then the decorator's value
get_retry_argument(kwarg, instance_attribute, wrapper_variable) ==
    LET from_instance == IF instance_attribute # "unset" THEN instance_attribute ELSE wrapper_variable
    IN  IF kwarg # "unset" THEN kwarg ELSE from_instance

\* what one call of a wrapped operation may do
Return(value) == [kind |-> "return", value |-> value, class |-> "none"]
Raise(class) == [kind |-> "raise", value |-> "none", class |-> class]
NoOutcome == [kind |-> "none", value |-> "none", class |-> "none"]

\* calls: how often the wrapped function has been called; last: what its last call did
rt_idle ==
    [status |-> "idle", function |-> "none", n_retries |-> 0, exceptions |-> {}, fatal |-> FALSE,
     attempt |-> 0, calls |-> 0, last |-> NoOutcome, sleeps |-> 0, signals |-> <<>>,
     result |-> [kind |-> "none", call |-> 0, class |-> "none"]]

\* mutant: the loop makes one more pass
WhileTestOneMore(attempt, n_retries) == attempt <= n_retries + 1

\* while attempt <= n_retries
WhileTest(attempt, n_retries) == attempt <= n_retries

\* mutant: the last attempt is handled like the ones before it
RetriesLeftOneMore(attempt, n_retries) == attempt < n_retries + 1

\* mutant: every attempt is handled like the last one
RetriesLeftNever(attempt, n_retries) == FALSE

\* if attempt < n_retries (in the except block)
RetriesLeft(attempt, n_retries) == attempt < n_retries

\* mutant: "Retry successful!" is logged on every success
NotFirstAttemptAlways(attempt) == attempt >= 1

\* if attempt > 1 (in the else block)
NotFirstAttempt(attempt) == attempt > 1

\* entry of retry(): the arguments are resolved and attempt = 1.
\* With no attempt to make, the while loop is skipped and None is returned.
RetryEnter(function, n_retries, exceptions, fatal) ==
    [rt_idle EXCEPT !.status = IF WhileTest(1, n_retries) THEN "running" ELSE "returned",
                    !.function = function, !.n_retries = n_retries,
                    !.exceptions = exceptions, !.fatal = fatal, !.attempt = 1]

\* One pass of `while attempt <= n_retries` in retry(): the wrapped function is
\* called once, with the given outcome, the try/except/else is run, and the
\* loop test is made again; a loop that ends makes retry() return None.
RetryIteration(r, outcome) ==
    LET call == r.calls + 1
        called == [r EXCEPT !.calls = call, !.last = outcome]
        exception == [kind |-> "exception", call |-> call, class |-> outcome.class]
        Signal(name) == [signal |-> name, attempt |-> r.attempt, of |-> r.n_retries]
        Loop(next) == IF WhileTest(next.attempt, next.n_retries)
                      THEN next
                      ELSE [next EXCEPT !.status = "returned",
                                        !.result = [kind |-> "None", call |-> 0, class |-> "none"]]
    IN  IF outcome.kind = "return"
        THEN [called EXCEPT !.status = "returned",
                            !.result = [kind |-> outcome.value, call |-> call, class |-> "none"],
                            !.signals = IF NotFirstAttempt(r.attempt)
                                        THEN Append(@, Signal("retry_successful"))
                                        ELSE @]
        ELSE IF ~Catches(r.exceptions, outcome.class)
        THEN [called EXCEPT !.status = "raised", !.result = exception]
        ELSE IF RetriesLeft(r.attempt, r.n_retries)
        THEN Loop([called EXCEPT !.signals = Append(@, Signal("retrying")),
                                 !.attempt = @ + 1,
                                 !.sleeps = @ + 1])
        ELSE IF r.fatal
        THEN [called EXCEPT !.signals = Append(@, Signal("retry_failed")),
                            !.attempt = @ + 1,
                            !.status = "raised",
                            !.result = exception]
        ELSE Loop([called EXCEPT !.signals = Append(@, Signal("retry_failed")),
                                 !.attempt = @ + 1])

\* a wrapped test operation (general_test.py): returns, or raises one of the classes
TestOutcomes == {Return("value")} \cup {Raise(class) : class \in ExceptionClasses}

TestExceptions == {{"Exception"}, {"ConnectionError"}, {"ReferenceError", "ValueError"}}
TestFlags == {"unset", "True", "False"}

\* the wrapper on its own: retry_function(function, n_retries, exceptions, fatal) is called
InitRetry ==
    /\ driver = "retry"
    /\ pc = "retry"
    /\ nsight_toplevel = ""
    /\ nsight_clients = <<>>
    /\ halo_clients = <<>>
    /\ halo_pages = <<>>
    /\ page_no = 0
    /\ comparison_variables = default_comparison_variables
    /\ missing_clients = <<>>
    /\ idx = 0
    /\ client_post_success = <<>>
    /\ backup_id = ""
    /\ sql_backup_table = <<>>
    /\ sql_sessions_table = <<>>
    /\ events = <<>>
    /\ exit_code = -1
    /\ DRYRUN = FALSE
    /\ halo_client_token = "none"
    /\ \E n \in 1..MaxRetries, exceptions \in TestExceptions, kwarg \in TestFlags, decorator \in {"True", "False"} :
          rt = RetryEnter("test", n, exceptions, get_retry_argument(kwarg, "unset", decorator) = "True")

\* retry(): one call of the wrapped test operation
retry ==
    /\ driver = "retry"
    /\ rt.status = "running"
    /\ \E outcome \in TestOutcomes : rt' = RetryIteration(rt, outcome)
    /\ UNCHANGED driver_vars

NextRetry == retry

SpecRetry == InitRetry /\ [][NextRetry]_vars

\* every invocation of the wrapped operation returns or raises, and the
\* sleep ends: a call of the wrapper that can take a step takes it
SpecRetryFair == SpecRetry /\ WF_vars(NextRetry)

(***************************************************************************)
(* The environment of a run                                                *)
(***************************************************************************)
SESSION_ID == "5e55104a"
BackupIds == {"b1", "b2"}           \* values general.generate_random_hex(8) may return
HttpOutcomes == {"ok", "bad_status", "no_connection"}
SqlOutcomes == {"ok", "sqlite3.Error"}

\* SqlTableBackup: columns and allowed actions
backup_actions == {"insert", "update", "remove"}

BackupRow(session_id, id, action, old, new, post_successful) ==
    [session_id |-> session_id, backup_id |-> id, action |-> action, old |-> old, new |-> new,
     post_successful |-> post_successful]

NoRow == BackupRow("", "", "", "", JsonDumps(<<>>), FALSE)

EvRow(e, k, what, row) == [e |-> e, k |-> k, what |-> what, row |-> row]
Ev(e, k, what) == EvRow(e, k, what, NoRow)
Log(what, k) == Ev("log", k, what)

\* lists of at most n elements of S
SeqsUpTo(S, n) == UNION {[1..m -> S] : m \in 0..n}

\* the client lists the source system may answer with (ids are positions)
SourceLists ==
    {[k \in 1..Len(names) |-> NsightClient(k, names[k])] : names \in SeqsUpTo(SourceNames, MaxSource)}

\* (name, toplevel_id) of the clients the target system holds in a run of the scripts
TargetClients == {<<"acme", 1>>, <<"Globex", 2>>}

\* the non-empty pages of clients the target system may answer with after
\* `before` clients (ids are positions in the listing)
ClientPages(before) ==
    {[k \in 1..Len(page) |-> HaloClient(before + k, page[k][1], page[k][2])] :
        page \in SeqsUpTo(TargetClients, MaxTarget - before) \ {<<>>}}

HaloToplevel(id, name) ==
    [kind |-> "HaloToplevel", id |-> PyI(id), name |-> PyS(name), toplevel_id |-> PyI(id)]

Toplevels == {HaloToplevel(1, "N-sight"), HaloToplevel(2, "N-sight"), HaloToplevel(2, "Other")}

\* the non-empty pages of toplevels the target system may answer with after `before` toplevels
ToplevelPages(before) == SeqsUpTo(Toplevels, MaxToplevels - before) \ {<<>>}

\* halo_requests.parse_clients / parse_toplevels: the items of all pages, in order
RECURSIVE Flatten(_)
Flatten(pages) == IF pages = <<>> THEN <<>> ELSE Head(pages).items \o Flatten(Tail(pages))

Finished(r) == r.status \in {"returned", "raised"}
GotResponse(r) == r.status = "returned" /\ r.result.kind \in {"response", "token"}

(***************************************************************************)
(* The state after the scripts' imports                                    *)
(***************************************************************************)
Init ==
    /\ driver \in {"sync_clients", "clients"}
    /\ pc = "env"
    /\ nsight_toplevel \in {"", "N-sight"}
    /\ DRYRUN \in BOOLEAN
    /\ nsight_clients = <<>>
    /\ halo_clients = <<>>
    /\ halo_pages = <<>>
    /\ page_no = 0
    /\ comparison_variables = default_comparison_variables
    /\ missing_clients = <<>>
    /\ idx = 0
    /\ client_post_success = <<>>
    /\ backup_id = ""
    /\ sql_backup_table = <<>>
    /\ sql_sessions_table = <<>>
    /\ events = <<>>
    /\ exit_code = -1
    /\ halo_client_token = "none"
    /\ rt = rt_idle

\* exit(code), or the interpreter ending on an uncaught exception (code 1)
Exit(code) == pc' = "exited" /\ exit_code' = code

Crash(class) ==
    /\ events' = Append(events, Ev("crash", idx, class))
    /\ Exit(1)

(***************************************************************************)
(* Wrapped operations: one call each                                       *)
(***************************************************************************)
\* logger.warning(log_string_retry_failed(...)): the record that the wrapper
\* writes when the last attempt has failed, kept in the history with the item k
\* (page or client) that the call was made for
RetryFailed(r) == r.signals # <<>> /\ r.signals[Len(r.signals)].signal = "retry_failed"
RetryFailedLog(r, k) == IF RetryFailed(r) THEN <<Ev("retry_failed", k, r.function)>> ELSE <<>>

\* mutant: get_token is decorated with fatal_fail=False
get_token_not_fatal == FALSE

\* @general.retry_function(fatal_fail=True) of HaloAuthorizer.get_token
get_token_fatal == TRUE

\* HaloAuthorizer.get_token: one token request
get_token ==
    /\ pc = "token_request"
    /\ rt.status = "running"
    /\ \E http \in HttpOutcomes, body \in {"token", "empty"} :
          rt' = RetryIteration(rt,
                    CASE http = "ok" -> Return(body)
                      [] http = "bad_status" -> Raise("ConnectionError")
                      [] OTHER -> Raise("requests.ConnectionError"))
    /\ events' = events \o RetryFailedLog(rt', 0)
    /\ UNCHANGED <<driver, pc, nsight_toplevel, nsight_clients, halo_clients, halo_pages, page_no,
                   comparison_variables, missing_clients, idx, client_post_success, backup_id,
                   sql_backup_table, sql_sessions_table, exit_code, DRYRUN, halo_client_token>>

\* nsight_requests.get_clients: one request; the response is returned whatever its status
get_clients ==
    /\ pc = "nsight_request"
    /\ rt.status = "running"
    /\ \E http \in HttpOutcomes :
          rt' = RetryIteration(rt,
                    CASE http = "ok" -> Return("response")
                      [] http = "bad_status" -> Return("bad_response")
                      [] OTHER -> Raise("requests.ConnectionError"))
    /\ events' = events
                  \o (IF rt.calls = 0 THEN <<Ev("http", 0, "GET nsight clients")>> ELSE <<>>)
                  \o RetryFailedLog(rt', 0)
    /\ UNCHANGED <<driver, pc, nsight_toplevel, nsight_clients, halo_clients, halo_pages, page_no,
                   comparison_variables, missing_clients, idx, client_post_success, backup_id,
                   sql_backup_table, sql_sessions_table, exit_code, DRYRUN, halo_client_token>>

\* mutant: the list is replaced by the new field
add_comparison_variable_alone(variables) == <<"toplevel_id">>

\* client_classes.Client.comparison_variables += ["toplevel_id"]
add_comparison_variable(variables) == variables \o <<"toplevel_id">>

\* dict.update: the keys of `updates` are set, the other keys are kept
dict_update(dict, updates) ==
    [key \in DOMAIN dict \cup DOMAIN updates |->
        IF key \in DOMAIN updates THEN updates[key] ELSE dict[key]]

\* the parameters a caller hands to HaloInterface.get: the drivers'
\* {"includeinactive": False}, the tests' {"parameter1": 1, "parameter2": 2}
CallerParameters(function) ==
    IF function = "GET mock_endpoint"
    THEN [parameter1 |-> PyI(1), parameter2 |-> PyI(2)]
    ELSE [includeinactive |-> PyBool(FALSE)]

pagination_page_size == 50

\* mutant: the page size is left to the target system
get_parameters_without_page_size(parameters, page) ==
    dict_update(parameters, [pageinate |-> PyBool(TRUE), page_no |-> PyI(page)])

\* parameters of HaloInterface.get when the page `page` is requested:
\* parameters.update(pageinate=True, page_size=..., page_no=1), then
\* parameters["page_no"] += 1 for every page kept
get_parameters(parameters, page) ==
    dict_update(parameters, [pageinate |-> PyBool(TRUE), page_size |-> PyI(pagination_page_size),
                             page_no |-> PyI(page)])

\* session.request(method="GET", url=self.endpoint_url, params=params) in the history
HttpParams(k, function, params) ==
    [e |-> "params", k |-> k, what |-> function, row |-> NoRow, params |-> params]

\* mutant: the response is returned whatever its status
request_returns_any_response(http) ==
    CASE http = "ok" -> Return("response")
      [] http = "bad_status" -> Return("bad_response")
      [] OTHER -> Raise("requests.ConnectionError")

\* session.request(...); `if not response.ok: raise ConnectionError(log_entry)`; return response
\* (without a connection session.request itself raises requests' ConnectionError)
request_outcome(http) ==
    CASE http = "ok" -> Return("response")
      [] http = "bad_status" -> Raise("ConnectionError")
      [] OTHER -> Raise("requests.ConnectionError")

\* HaloInterface.request: one request; a response that is not ok raises ConnectionError.
\* Of the requests that the retry wrapper makes for one call, the history keeps the first one
\* (for a GET with its page_no), and of the POSTs of a client also the one answered with success.
request ==
    /\ pc \in {"clients_get", "toplevels_get", "post_request"}
    /\ rt.status = "running"
    /\ \E http \in HttpOutcomes :
          /\ rt' = RetryIteration(rt, request_outcome(http))
          /\ events' = events
                        \o (IF pc # "post_request" /\ rt.calls = 0
                            THEN <<Ev("http", page_no, rt.function),
                                   HttpParams(page_no, rt.function,
                                       get_parameters(CallerParameters(rt.function), page_no))>>
                            ELSE <<>>)
                        \o (IF pc = "post_request" /\ rt.calls = 0
                            THEN <<Ev("http", idx, "POST")>> ELSE <<>>)
                        \o (IF pc = "post_request" /\ http = "ok"
                            THEN <<Ev("http", idx, "POST ok")>> ELSE <<>>)
                        \o RetryFailedLog(rt', IF pc = "post_request" THEN idx ELSE page_no)
    /\ UNCHANGED <<driver, pc, nsight_toplevel, nsight_clients, halo_clients, halo_pages, page_no,
                   comparison_variables, missing_clients, idx, client_post_success, backup_id,
                   sql_backup_table, sql_sessions_table, exit_code, DRYRUN, halo_client_token>>

\* mutant: only a missing response ends the loop
LoopBreaksOnNoResponse(response, page) == ~response

\* mutant: only a response with record_count 0 ends the loop
LoopBreaksOnRecordCount(response, page) == response /\ Len(page) = 0

\* if not response or not int(record_count): break
\* (the record_count of a page is the number of its items)
LoopBreaks(response, page) == ~response \/ Len(page) = 0

\* HaloInterface.get, from the return of self.request to the next call of it:
\* no response or record_count 0 ends the loop, otherwise the page is kept and
\* the next page is requested.  An exception raised by request leaves get.
get ==
    /\ pc \in {"clients_get", "toplevels_get"}
    /\ Finished(rt)
    /\ LET result_pc == IF pc = "clients_get" THEN "clients_result" ELSE "toplevels_result"
           before == Len(Flatten(halo_pages))
           Pages == IF pc = "clients_get" THEN ClientPages(before) ELSE ToplevelPages(before)
       IN  IF rt.status = "raised"
           THEN /\ pc' = result_pc
                /\ UNCHANGED <<halo_pages, page_no, rt>>
           ELSE \E page \in IF GotResponse(rt) THEN Pages \cup {<<>>} ELSE {<<>>} :
                   IF LoopBreaks(GotResponse(rt), page)
                   THEN /\ pc' = result_pc
                        /\ rt' = IF GotResponse(rt) THEN rt_idle ELSE rt
                        /\ UNCHANGED <<halo_pages, page_no>>
                   ELSE /\ halo_pages' = Append(halo_pages, [page_no |-> page_no, items |-> page])
                        /\ page_no' = page_no + 1
                        /\ rt' = RetryEnter(rt.function, default_n_retries, {"Exception"}, rt.fatal)
                        /\ UNCHANGED pc
    /\ UNCHANGED <<driver, nsight_toplevel, nsight_clients, halo_clients, comparison_variables,
                   missing_clients, idx, client_post_success, backup_id, sql_backup_table,
                   sql_sessions_table, events, exit_code, DRYRUN, halo_client_token>>

\* mutant: the interface is made with fatal_fail=False
GetEnterNonFatal(function, fatal) ==
    /\ page_no' = 1
    /\ halo_pages' = <<>>
    /\ rt' = RetryEnter(function, default_n_retries, {"Exception"}, FALSE)

\* entry of HaloInterface.get: page_no = 1, no pages yet, first request
GetEnter(function, fatal) ==
    /\ page_no' = 1
    /\ halo_pages' = <<>>
    /\ rt' = RetryEnter(function, default_n_retries, {"Exception"}, fatal)

(***************************************************************************)
(* sync_clients.py                                                         *)
(***************************************************************************)
\* required env variables: a missing one is logged and the run exits with 1
check_env_variables ==
    /\ driver = "sync_clients"
    /\ pc = "env"
    /\ \E missing_env_variables \in BOOLEAN :
          IF missing_env_variables
          THEN /\ events' = Append(events, Log("EnvVariablesMissing", 0))
               /\ Exit(1)
          ELSE /\ pc' = "setup_sql"
               /\ UNCHANGED <<events, exit_code>>
    /\ UNCHANGED <<driver, nsight_toplevel, nsight_clients, halo_clients, halo_pages, page_no,
                   comparison_variables, missing_clients, idx, client_post_success, backup_id,
                   sql_backup_table, sql_sessions_table, DRYRUN, halo_client_token, rt>>

\* the statement is built but the row does not reach the table
insert_row_lost(table, row) == table

\* sql_operations.insert_row
insert_row(table, row) == Append(table, row)

\* the row of the sessions table that a run starts with
\* (time_unix is the time of the insert, whatever it is)
SessionRow(session_id, status) == [session_id |-> session_id, time_unix |-> "now", status |-> status]

\* sql_database_path = ":memory:" if DRYRUN else ini_parameters["SQL_DATABASE_PATH"]
sql_database_path(dryrun) == IF dryrun THEN ":memory:" ELSE "SQL_DATABASE_PATH"

\* the rows that a table opened at `path` has put into the database file:
\* a connection to ":memory:" writes to no file
DatabaseFile(path, table) == IF path = ":memory:" THEN <<>> ELSE table

\* Setup SQL: the tables are opened (in memory for a dry run) and the session row is inserted
setup_sql ==
    /\ driver = "sync_clients"
    /\ pc = "setup_sql"
    /\ sql_sessions_table' = insert_row(sql_sessions_table, SessionRow(SESSION_ID, "started"))
    /\ events' = events \o <<Log("SqlSetupBegin", 0), Ev("sql_connect", 0, sql_database_path(DRYRUN)),
                             Log("SqlInsertSessionInfo", 0)>>
    /\ pc' = "get_halo_token"
    /\ UNCHANGED <<driver, nsight_toplevel, nsight_clients, halo_clients, halo_pages, page_no,
                   comparison_variables, missing_clients, idx, client_post_success, backup_id,
                   sql_backup_table, exit_code, DRYRUN, halo_client_token, rt>>

\* Get Halo token: call of halo_authorizer.get_token (fatal retry)
get_halo_token ==
    /\ driver = "sync_clients"
    /\ pc = "get_halo_token"
    /\ events' = Append(events, Log("HaloTokenRequestBegin", 0))
    /\ rt' = RetryEnter("get_token", default_n_retries, {"Exception"}, get_token_fatal)
    /\ pc' = "token_request"
    /\ UNCHANGED <<driver, nsight_toplevel, nsight_clients, halo_clients, halo_pages, page_no,
                   comparison_variables, missing_clients, idx, client_post_success, backup_id,
                   sql_backup_table, sql_sessions_table, exit_code, DRYRUN, halo_client_token>>

\* try/except around get_token, and the check of the token
halo_token_result ==
    /\ driver = "sync_clients"
    /\ pc = "token_request"
    /\ Finished(rt)
    /\ rt' = rt_idle
    /\ IF rt.status = "raised"
       THEN IF rt.result.class = "ConnectionError"
            THEN /\ events' = Append(events, Log("HaloTokenRequestFail", 0))
                 /\ Exit(1)
            ELSE Crash(rt.result.class)
       ELSE IF rt.result.kind = "token"
            THEN /\ pc' = "get_nsight_clients"
                 /\ UNCHANGED <<events, exit_code>>
            ELSE /\ Exit(1)                     \* the log string is built but not recorded
                 /\ UNCHANGED events
    /\ halo_client_token' = IF rt.status = "returned" THEN rt.result.kind ELSE halo_client_token
    /\ UNCHANGED <<driver, nsight_toplevel, nsight_clients, halo_clients, halo_pages, page_no,
                   comparison_variables, missing_clients, idx, client_post_success, backup_id,
                   sql_backup_table, sql_sessions_table, DRYRUN>>

\* Get N-sight clients: call of nsight_requests.get_clients (non-fatal retry)
get_nsight_clients ==
    /\ driver = "sync_clients"
    /\ pc = "get_nsight_clients"
    /\ events' = Append(events, Log("NsightClientsRequestBegin", 0))
    /\ rt' = RetryEnter("get_clients", default_n_retries, {"Exception"}, FALSE)
    /\ pc' = "nsight_request"
    /\ UNCHANGED <<driver, nsight_toplevel, nsight_clients, halo_clients, halo_pages, page_no,
                   comparison_variables, missing_clients, idx, client_post_success, backup_id,
                   sql_backup_table, sql_sessions_table, exit_code, DRYRUN, halo_client_token>>

\* mutant: a response is true whatever its status
Response_bool_any_status(kind) == kind \in {"response", "bad_response"}

\* truth value of what get_clients returned: a Response is true when it is ok, None is false
Response_bool(kind) == kind = "response"

\* `if nsight_clients_response:` parse, else log the response's status and use an
\* empty list; with no response (None) reading its status raises AttributeError
nsight_clients_result ==
    /\ driver = "sync_clients"
    /\ pc = "nsight_request"
    /\ Finished(rt)
    /\ rt' = rt_idle
    /\ IF Response_bool(rt.result.kind)
       THEN /\ \E clients \in SourceLists : nsight_clients' = clients
            /\ pc' = "get_halo_clients"
            /\ UNCHANGED <<events, exit_code>>
       ELSE IF rt.result.kind = "bad_response"
       THEN /\ events' = Append(events, Log("NsightClientsRequestFail", 0))
            /\ nsight_clients' = <<>>
            /\ pc' = "get_halo_clients"
            /\ UNCHANGED exit_code
       ELSE /\ Crash("AttributeError")
            /\ UNCHANGED nsight_clients
    /\ UNCHANGED <<driver, nsight_toplevel, halo_clients, halo_pages, page_no,
                   comparison_variables, missing_clients, idx, client_post_success, backup_id,
                   sql_backup_table, sql_sessions_table, DRYRUN, halo_client_token>>

\* mutant: a listing without pages is taken as a listing
not_halo_client_pages_never(pages) == FALSE

\* `if not halo_client_pages:`
not_halo_client_pages(pages) == pages = <<>>

\* Get Halo clients: call of halo_client_api.get (fatal_fail=True)
get_halo_clients ==
    /\ driver = "sync_clients"
    /\ pc = "get_halo_clients"
    /\ events' = Append(events, Log("HaloClientRequestBegin", 0))
    /\ GetEnter("GET clients", TRUE)
    /\ pc' = "clients_get"
    /\ UNCHANGED <<driver, nsight_toplevel, nsight_clients, halo_clients,
                   comparison_variables, missing_clients, idx, client_post_success, backup_id,
                   sql_backup_table, sql_sessions_table, exit_code, DRYRUN, halo_client_token>>

\* try/except around get, the check for no pages, and the parse of the pages
halo_clients_result ==
    /\ driver = "sync_clients"
    /\ pc = "clients_result"
    /\ rt' = rt_idle
    /\ IF rt.status = "raised"
       THEN /\ IF rt.result.class = "ConnectionError"
               THEN /\ events' = Append(events, Log("HaloClientRequestFail", 0))
                    /\ Exit(1)
               ELSE Crash(rt.result.class)
            /\ UNCHANGED halo_clients
       ELSE IF not_halo_client_pages(halo_pages)
            THEN /\ events' = Append(events, Log("HaloClientRequestFail", 0))
                 /\ Exit(1)
                 /\ UNCHANGED halo_clients
            ELSE /\ halo_clients' = Flatten(halo_pages)
                 /\ pc' = "handle_toplevel"
                 /\ UNCHANGED <<events, exit_code>>
    /\ halo_pages' = <<>> /\ page_no' = 0           \* get's list of pages is dropped once parsed
    /\ UNCHANGED <<driver, nsight_toplevel, nsight_clients,
                   comparison_variables, missing_clients, idx, client_post_success, backup_id,
                   sql_backup_table, sql_sessions_table, DRYRUN, halo_client_token>>

\* Handle N-sight toplevel, if supplied: call of halo_toplevel_api.get (fatal_fail=True)
get_halo_toplevels ==
    /\ driver = "sync_clients"
    /\ pc = "handle_toplevel"
    /\ IF nsight_toplevel = ""
       THEN /\ pc' = "diff"
            /\ UNCHANGED <<events, halo_pages, page_no, rt>>
       ELSE /\ events' = Append(events, Log("HaloToplevelRequestBegin", 0))
            /\ GetEnter("GET toplevels", TRUE)
            /\ pc' = "toplevels_get"
    /\ UNCHANGED <<driver, nsight_toplevel, nsight_clients, halo_clients,
                   comparison_variables, missing_clients, idx, client_post_success, backup_id,
                   sql_backup_table, sql_sessions_table, exit_code, DRYRUN, halo_client_token>>

\* the toplevel_id of the first toplevel of that name is set on every N-sight client
SetToplevelId(clients, toplevel_id) ==
    [k \in 1..Len(clients) |-> [clients[k] EXCEPT !.toplevel_id = toplevel_id]]

\* every fetched toplevel counts as a match, whatever its name
ToplevelMatchAny(existing_toplevels, name) == existing_toplevels

\* [toplevel for toplevel in existing_toplevels if toplevel.name == nsight_toplevel]
ToplevelMatch(existing_toplevels, name) ==
    SelectSeq(existing_toplevels, LAMBDA toplevel : toplevel.name.s = name)

\* try/except around get, the check for no pages, the match of the configured
\* name, and the extension of Client.comparison_variables
halo_toplevels_result ==
    /\ driver = "sync_clients"
    /\ pc = "toplevels_result"
    /\ rt' = rt_idle
    /\ LET existing_toplevels == Flatten(halo_pages)
           nsight_toplevel_match == ToplevelMatch(existing_toplevels, nsight_toplevel)
       IN  IF rt.status = "raised"
           THEN /\ IF rt.result.class = "ConnectionError"
                   THEN /\ events' = Append(events, Log("HaloToplevelRequestFail", 0))
                        /\ Exit(1)
                   ELSE Crash(rt.result.class)
                /\ UNCHANGED <<nsight_clients, comparison_variables>>
           ELSE IF halo_pages = <<>>
           THEN /\ events' = Append(events, Log("HaloToplevelRequestFail", 0))
                /\ Exit(1)
                /\ UNCHANGED <<nsight_clients, comparison_variables>>
           ELSE IF nsight_toplevel_match # <<>>
           THEN /\ nsight_clients' = SetToplevelId(nsight_clients, nsight_toplevel_match[1].toplevel_id)
                /\ comparison_variables' = add_comparison_variable(comparison_variables)
                /\ pc' = "diff"
                /\ UNCHANGED <<events, exit_code>>
           ELSE /\ events' = Append(events, Log("NoMatchingToplevel", 0))
                /\ Exit(1)
                /\ UNCHANGED <<nsight_clients, comparison_variables>>
    /\ halo_pages' = <<>> /\ page_no' = 0           \* get's list of pages is dropped once parsed
    /\ UNCHANGED <<driver, nsight_toplevel, halo_clients,
                   missing_clients, idx, client_post_success, backup_id,
                   sql_backup_table, sql_sessions_table, DRYRUN, halo_client_token>>

\* the run goes on to the posts whatever the list holds
NotMissingClientsNever(missing) == FALSE

\* `if not missing_clients:`
NotMissingClients(missing) == missing = <<>>

\* Get clients missing from Halo; with none the run exits with 0
get_missing_clients ==
    /\ driver = "sync_clients"
    /\ pc = "diff"
    /\ missing_clients' = Missing(nsight_clients, halo_clients, comparison_variables)
    /\ IF NotMissingClients(missing_clients')
       THEN /\ events' = Append(events, Log("NoMissingClients", 0))
            /\ Exit(0)
            /\ UNCHANGED idx
       ELSE /\ events' = Append(events, Log("InsertNClients", 0))
            /\ idx' = 1
            /\ pc' = "post"
            /\ UNCHANGED exit_code
    /\ UNCHANGED <<driver, nsight_toplevel, nsight_clients, halo_clients, halo_pages, page_no,
                   comparison_variables, client_post_success, backup_id,
                   sql_backup_table, sql_sessions_table, DRYRUN, halo_client_token, rt>>

\* the UPDATE has no WHERE clause and sets backup_id along with post_successful
update_row_rewrites(table, id, value) ==
    [k \in 1..Len(table) |-> [table[k] EXCEPT !.post_successful = value, !.backup_id = id]]

\* sql_operations.update_row: UPDATE backup SET post_successful = value WHERE backup_id == id
update_row(table, id, value) ==
    [k \in 1..Len(table) |->
        IF table[k].backup_id = id THEN [table[k] EXCEPT !.post_successful = value] ELSE table[k]]

\* what a function without a return value gives its caller
PyNone == [t |-> "NoneType", s |-> "", i |-> 0]

\* the check of the action is left out
SqlTableBackup_insert_any_action(table, row) == [raises |-> "", table |-> insert_row(table, row)]

\* SqlTableBackup.insert: an action outside backup_actions raises sqlite3.Error
\* before anything is written, else the row is handed to insert_row
SqlTableBackup_insert(table, row) ==
    IF row.action \notin backup_actions
    THEN [raises |-> "sqlite3.Error", table |-> table]
    ELSE [raises |-> "", table |-> insert_row(table, row)]

\* update_row ends with a bare `return`
update_row_returns(table, id, value) == PyNone

\* post stays the real post whatever dryrun is
post_is_never_mock_post(dryrun) == FALSE

\* HaloInterface.__init__: `if dryrun: self.post = self.mock_post`
post_is_mock_post(dryrun) == dryrun

\* HaloInterface.mock_post, called with session= and json= as post is: the mock
\* response is registered with the keyword arguments as its json body, and the
\* session object cannot be serialised
mock_post_raises == "TypeError"

\* the interface for the posts is made with fatal_fail=True
post_fatal_fail_set == TRUE

\* halo_client_api = HaloInterface(..., fatal_fail=False): continue if posting a client fails
post_fatal_fail == FALSE

\* Post missing clients: the next client of the for-loop is posted (non-fatal retry)
post_missing_client ==
    /\ driver = "sync_clients"
    /\ pc = "post"
    /\ IF post_is_mock_post(DRYRUN)
       THEN /\ events' = events \o <<Log("ClientInsertBegin", idx), Ev("crash", idx, mock_post_raises)>>
            /\ Exit(1)
            /\ UNCHANGED rt
       ELSE /\ events' = Append(events, Log("ClientInsertBegin", idx))
            /\ rt' = RetryEnter("POST client", default_n_retries, {"Exception"}, post_fatal_fail)
            /\ pc' = "post_request"
            /\ UNCHANGED exit_code
    /\ UNCHANGED <<driver, nsight_toplevel, nsight_clients, halo_clients, halo_pages, page_no,
                   comparison_variables, missing_clients, idx, client_post_success, backup_id,
                   sql_backup_table, sql_sessions_table, DRYRUN, halo_client_token>>

\* every entry counts, true or false
sum_of_all(list) == Len(list)

\* sum(client_post_success): the number of true entries
sum(list) == Cardinality({k \in 1..Len(list) : list[k]})

\* log.ClientInsertResult(n_success, n_fail).record("INFO")
ClientInsertResult(n_success, n_fail) ==
    [e |-> "log", k |-> 0, what |-> "ClientInsertResult", row |-> NoRow,
     n_success |-> n_success, n_fail |-> n_fail]

\* the rest of the loop body: the outcome is noted, a failure is logged; after
\* the last client the result is logged and the backup loop starts
client_post_result ==
    /\ driver = "sync_clients"
    /\ pc = "post_request"
    /\ Finished(rt)
    /\ rt' = rt_idle
    /\ LET response == GotResponse(rt)
           fail_log == IF response THEN <<>> ELSE <<Log("ClientInsertFail", idx)>>
       IN  IF rt.status = "raised"             \* there is no try around the post
           THEN /\ Crash(rt.result.class)
                /\ UNCHANGED <<client_post_success, idx>>
           ELSE /\ client_post_success' = Append(client_post_success, response)
                /\ UNCHANGED exit_code
                /\ IF idx < Len(missing_clients)
                   THEN /\ events' = events \o fail_log
                        /\ idx' = idx + 1
                        /\ pc' = "post"
                   ELSE /\ events' = events \o fail_log
                                        \o <<ClientInsertResult(sum(client_post_success'),
                                                                Len(client_post_success') - sum(client_post_success'))>>
                        /\ idx' = 1
                        /\ pc' = "backup"
    /\ UNCHANGED <<driver, nsight_toplevel, nsight_clients, halo_clients, halo_pages, page_no,
                   comparison_variables, missing_clients, backup_id,
                   sql_backup_table, sql_sessions_table, DRYRUN, halo_client_token>>

\* the loop `for client in missing_clients` has run out: the script ends
EndOfLoop == idx = Len(missing_clients)

\* Backup post client actions: one pass of the loop over (client, success).  A
\* client whose post failed is skipped; for the others a row is inserted
\* (no post_successful value is given: the column is left empty, which reads as false).
backup_post_client_action ==
    /\ driver = "sync_clients"
    /\ pc = "backup"
    /\ IF ~client_post_success[idx]
       THEN UNCHANGED <<backup_id, sql_backup_table, events>>
       ELSE \E id \in BackupIds, sql \in SqlOutcomes :
              LET row == BackupRow(SESSION_ID, id, "insert", "",
                                   JsonDumps(<<get_post_payload(missing_clients[idx])>>), FALSE)
              IN  /\ backup_id' = id
                  /\ IF sql = "ok" /\ SqlTableBackup_insert(sql_backup_table, row).raises = ""
                     THEN /\ sql_backup_table' = SqlTableBackup_insert(sql_backup_table, row).table
                          /\ events' = events \o <<Log("ClientInsertBackupBegin", idx),
                                                   EvRow("sql", idx, "backup_insert", row)>>
                     ELSE /\ events' = events \o <<Log("ClientInsertBackupBegin", idx),
                                                   Ev("sql", idx, "backup_insert_failed"),
                                                   Log("ClientInsertBackupFail", idx)>>
                          /\ UNCHANGED sql_backup_table
    /\ IF EndOfLoop
       THEN Exit(0) /\ UNCHANGED idx
       ELSE idx' = idx + 1 /\ UNCHANGED <<pc, exit_code>>
    /\ UNCHANGED <<driver, nsight_toplevel, nsight_clients, halo_clients, halo_pages, page_no,
                   comparison_variables, missing_clients, client_post_success,
                   sql_sessions_table, DRYRUN, halo_client_token, rt>>

(***************************************************************************)
(* clients.py (the earlier revision of the driver: backup, post, update)   *)
(***************************************************************************)
\* env_parameters: reading a variable that is not set raises KeyError
clients_env_parameters ==
    /\ driver = "clients"
    /\ pc = "env"
    /\ \E missing_env_variables \in BOOLEAN :
          IF missing_env_variables
          THEN Crash("KeyError")
          ELSE /\ pc' = "setup_sql"
               /\ UNCHANGED <<events, exit_code>>
    /\ UNCHANGED <<driver, nsight_toplevel, nsight_clients, halo_clients, halo_pages, page_no,
                   comparison_variables, missing_clients, idx, client_post_success, backup_id,
                   sql_backup_table, sql_sessions_table, DRYRUN, halo_client_token, rt>>

\* Setup SQL and the session row
clients_setup_sql ==
    /\ driver = "clients"
    /\ pc = "setup_sql"
    /\ sql_sessions_table' = insert_row(sql_sessions_table, SessionRow(SESSION_ID, "started"))
    /\ events' = Append(events, Ev("sql_connect", 0, sql_database_path(DRYRUN)))
    /\ pc' = "get_halo_token"
    /\ UNCHANGED <<driver, nsight_toplevel, nsight_clients, halo_clients, halo_pages, page_no,
                   comparison_variables, missing_clients, idx, client_post_success, backup_id,
                   sql_backup_table, exit_code, DRYRUN, halo_client_token, rt>>

\* Get Halo token: get_token(fatal=True)
clients_get_halo_token ==
    /\ driver = "clients"
    /\ pc = "get_halo_token"
    /\ rt' = RetryEnter("get_token", default_n_retries, {"Exception"}, get_token_fatal)
    /\ pc' = "token_request"
    /\ UNCHANGED <<driver, nsight_toplevel, nsight_clients, halo_clients, halo_pages, page_no,
                   comparison_variables, missing_clients, idx, client_post_success, backup_id,
                   sql_backup_table, sql_sessions_table, events, exit_code, DRYRUN, halo_client_token>>

\* the token is kept as returned; an exception of get_token is not caught
clients_halo_token_result ==
    /\ driver = "clients"
    /\ pc = "token_request"
    /\ Finished(rt)
    /\ rt' = rt_idle
    /\ IF rt.status = "raised"
       THEN /\ Crash(rt.result.class)
            /\ UNCHANGED halo_client_token
       ELSE /\ halo_client_token' = rt.result.kind
            /\ pc' = "get_nsight_clients"
            /\ UNCHANGED <<events, exit_code>>
    /\ UNCHANGED <<driver, nsight_toplevel, nsight_clients, halo_clients, halo_pages, page_no,
                   comparison_variables, missing_clients, idx, client_post_success, backup_id,
                   sql_backup_table, sql_sessions_table, DRYRUN>>

\* Get N-sight clients: get_clients(fatal=False)
clients_get_nsight_clients ==
    /\ driver = "clients"
    /\ pc = "get_nsight_clients"
    /\ rt' = RetryEnter("get_clients", default_n_retries, {"Exception"}, FALSE)
    /\ pc' = "nsight_request"
    /\ UNCHANGED <<driver, nsight_toplevel, nsight_clients, halo_clients, halo_pages, page_no,
                   comparison_variables, missing_clients, idx, client_post_success, backup_id,
                   sql_backup_table, sql_sessions_table, events, exit_code, DRYRUN, halo_client_token>>

\* the response text is parsed as it is (None has no text; the body of an error
\* response either has no items/client element or is not XML), then the Halo
\* session is built from the token (a token without fields raises KeyError)
clients_nsight_clients_result ==
    /\ driver = "clients"
    /\ pc = "nsight_request"
    /\ Finished(rt)
    /\ rt' = rt_idle
    /\ \E parsed \in (CASE rt.result.kind = "response" ->
                               {[raises |-> "", clients |-> clients] : clients \in SourceLists}
                        [] rt.result.kind = "bad_response" ->
                               {[raises |-> "", clients |-> <<>>], [raises |-> "ParseError", clients |-> <<>>]}
                        [] OTHER ->
                               {[raises |-> "AttributeError", clients |-> <<>>]}) :
          IF parsed.raises # ""
          THEN /\ Crash(parsed.raises)
               /\ UNCHANGED nsight_clients
          ELSE IF halo_client_token # "token"
          THEN /\ Crash("KeyError")
               /\ UNCHANGED nsight_clients
          ELSE /\ nsight_clients' = parsed.clients
               /\ pc' = "handle_toplevel"
               /\ UNCHANGED <<events, exit_code>>
    /\ UNCHANGED <<driver, nsight_toplevel, halo_clients, halo_pages, page_no,
                   comparison_variables, missing_clients, idx, client_post_success, backup_id,
                   sql_backup_table, sql_sessions_table, DRYRUN, halo_client_token>>

\* Handle N-sight toplevel if supplied: halo_toplevel_api.get_all (the interface's default retry policy)
clients_get_halo_toplevels ==
    /\ driver = "clients"
    /\ pc = "handle_toplevel"
    /\ IF nsight_toplevel = ""
       THEN /\ pc' = "get_halo_clients"
            /\ UNCHANGED <<halo_pages, page_no, rt>>
       ELSE /\ GetEnter("GET toplevels", TRUE)
            /\ pc' = "toplevels_get"
    /\ UNCHANGED <<driver, nsight_toplevel, nsight_clients, halo_clients,
                   comparison_variables, missing_clients, idx, client_post_success, backup_id,
                   sql_backup_table, sql_sessions_table, events, exit_code, DRYRUN, halo_client_token>>

\* the id of the first toplevel of the configured name ([0] of no match raises IndexError)
clients_halo_toplevels_result ==
    /\ driver = "clients"
    /\ pc = "toplevels_result"
    /\ rt' = rt_idle
    /\ LET halo_toplevels == Flatten(halo_pages)
           matching == ToplevelMatch(halo_toplevels, nsight_toplevel)
       IN  IF rt.status = "raised" \/ matching = <<>>
           THEN /\ Crash(IF rt.status = "raised" THEN rt.result.class ELSE "IndexError")
                /\ UNCHANGED <<nsight_clients, comparison_variables>>
           ELSE /\ nsight_clients' = SetToplevelId(nsight_clients, matching[1].toplevel_id)
                /\ comparison_variables' = add_comparison_variable(comparison_variables)
                /\ pc' = "get_halo_clients"
                /\ UNCHANGED <<events, exit_code>>
    /\ halo_pages' = <<>> /\ page_no' = 0           \* get's list of pages is dropped once parsed
    /\ UNCHANGED <<driver, nsight_toplevel, halo_clients,
                   missing_clients, idx, client_post_success, backup_id,
                   sql_backup_table, sql_sessions_table, DRYRUN, halo_client_token>>

\* Get Halo clients: halo_client_api.get_all(fatal=True)
clients_get_halo_clients ==
    /\ driver = "clients"
    /\ pc = "get_halo_clients"
    /\ GetEnter("GET clients", TRUE)
    /\ pc' = "clients_get"
    /\ UNCHANGED <<driver, nsight_toplevel, nsight_clients, halo_clients,
                   comparison_variables, missing_clients, idx, client_post_success, backup_id,
                   sql_backup_table, sql_sessions_table, events, exit_code, DRYRUN, halo_client_token>>

\* the clients of all pages; an exception of get_all is not caught
clients_halo_clients_result ==
    /\ driver = "clients"
    /\ pc = "clients_result"
    /\ rt' = rt_idle
    /\ IF rt.status = "raised"
       THEN /\ Crash(rt.result.class)
            /\ UNCHANGED halo_clients
       ELSE /\ halo_clients' = Flatten(halo_pages)
            /\ pc' = "diff"
            /\ UNCHANGED <<events, exit_code>>
    /\ halo_pages' = <<>> /\ page_no' = 0           \* get's list of pages is dropped once parsed
    /\ UNCHANGED <<driver, nsight_toplevel, nsight_clients,
                   comparison_variables, missing_clients, idx, client_post_success, backup_id,
                   sql_backup_table, sql_sessions_table, DRYRUN, halo_client_token>>

\* Get clients missing from Halo; with none the run exits with 0
clients_get_missing_clients ==
    /\ driver = "clients"
    /\ pc = "diff"
    /\ missing_clients' = Missing(nsight_clients, halo_clients, comparison_variables)
    /\ IF NotMissingClients(missing_clients')
       THEN /\ Exit(0)
            /\ UNCHANGED <<idx, events>>
       ELSE /\ events' = Append(events, Log("FoundMissingClients", 0))
            /\ idx' = 1
            /\ pc' = "backup"
            /\ UNCHANGED exit_code
    /\ UNCHANGED <<driver, nsight_toplevel, nsight_clients, halo_clients, halo_pages, page_no,
                   comparison_variables, client_post_success, backup_id,
                   sql_backup_table, sql_sessions_table, DRYRUN, halo_client_token, rt>>

\* the loop goes on with the next client, or the script ends
NextClient ==
    IF EndOfLoop
    THEN Exit(0) /\ UNCHANGED idx
    ELSE idx' = idx + 1 /\ pc' = "backup" /\ UNCHANGED exit_code

\* Post missing clients, first half of the try block: the client is backed up
\* with post_successful=0; sqlite3.Error is caught, logged, and the client is left
clients_backup ==
    /\ driver = "clients"
    /\ pc = "backup"
    /\ \E action_id \in BackupIds, sql \in SqlOutcomes :
          LET row == BackupRow(SESSION_ID, action_id, "insert", "",
                               JsonDumps(<<get_post_payload(missing_clients[idx])>>), FALSE)
          IN  /\ backup_id' = action_id
              /\ IF sql = "ok" /\ SqlTableBackup_insert(sql_backup_table, row).raises = ""
                 THEN /\ sql_backup_table' = SqlTableBackup_insert(sql_backup_table, row).table
                      /\ events' = events \o <<Log("AddingNewClient", idx),
                                               EvRow("sql", idx, "backup_insert", row)>>
                      /\ pc' = "post"
                      /\ UNCHANGED <<idx, exit_code>>
                 ELSE /\ events' = events \o <<Log("AddingNewClient", idx),
                                               Ev("sql", idx, "backup_insert_failed"),
                                               Log("SqlError", idx),
                                               Log("EndOfClientPostAction", idx)>>
                      /\ NextClient
                      /\ UNCHANGED sql_backup_table
    /\ UNCHANGED <<driver, nsight_toplevel, nsight_clients, halo_clients, halo_pages, page_no,
                   comparison_variables, missing_clients, client_post_success,
                   sql_sessions_table, DRYRUN, halo_client_token, rt>>

\* second half of the try block: halo_client_api.post(fatal=False)
clients_post ==
    /\ driver = "clients"
    /\ pc = "post"
    /\ IF post_is_mock_post(DRYRUN)
       THEN /\ Crash(mock_post_raises)
            /\ UNCHANGED rt
       ELSE /\ rt' = RetryEnter("POST client", default_n_retries, {"Exception"}, FALSE)
            /\ pc' = "post_request"
            /\ UNCHANGED <<events, exit_code>>
    /\ UNCHANGED <<driver, nsight_toplevel, nsight_clients, halo_clients, halo_pages, page_no,
                   comparison_variables, missing_clients, idx, client_post_success, backup_id,
                   sql_backup_table, sql_sessions_table, DRYRUN, halo_client_token>>

\* `if response:` the backup rows of this action_id are set to post_successful=1
\* (sqlite3.Error is caught and logged), else a warning is logged
clients_post_result ==
    /\ driver = "clients"
    /\ pc = "post_request"
    /\ Finished(rt)
    /\ rt' = rt_idle
    /\ IF GotResponse(rt)
       THEN \E sql \in SqlOutcomes :
              IF sql = "ok"
              THEN /\ sql_backup_table' = update_row(sql_backup_table, backup_id, TRUE)
                   /\ events' = events \o <<Ev("sql", idx, "backup_update"),
                                            Log("EndOfClientPostAction", idx)>>
              ELSE /\ events' = events \o <<Ev("sql", idx, "backup_update_failed"),
                                            Log("SqlError", idx),
                                            Log("EndOfClientPostAction", idx)>>
                   /\ UNCHANGED sql_backup_table
       ELSE /\ events' = events \o <<Log("PostingClientFailed", idx),
                                     Log("EndOfClientPostAction", idx)>>
            /\ UNCHANGED sql_backup_table
    /\ NextClient
    /\ UNCHANGED <<driver, nsight_toplevel, nsight_clients, halo_clients, halo_pages, page_no,
                   comparison_variables, missing_clients, client_post_success, backup_id,
                   sql_sessions_table, DRYRUN, halo_client_token>>

Next ==
    \/ get_token
    \/ get_clients
    \/ request
    \/ get
    \/ check_env_variables
    \/ setup_sql
    \/ get_halo_token
    \/ halo_token_result
    \/ get_nsight_clients
    \/ nsight_clients_result
    \/ get_halo_clients
    \/ halo_clients_result
    \/ get_halo_toplevels
    \/ halo_toplevels_result
    \/ get_missing_clients
    \/ post_missing_client
    \/ client_post_result
    \/ backup_post_client_action
    \/ clients_env_parameters
    \/ clients_setup_sql
    \/ clients_get_halo_token
    \/ clients_halo_token_result
    \/ clients_get_nsight_clients
    \/ clients_nsight_clients_result
    \/ clients_get_halo_toplevels
    \/ clients_halo_toplevels_result
    \/ clients_get_halo_clients
    \/ clients_halo_clients_result
    \/ clients_get_missing_clients
    \/ clients_backup
    \/ clients_post
    \/ clients_post_result

Spec == Init /\ [][Next]_vars

(***************************************************************************)
(* The diff on its own: the client lists are built as client_classes_test  *)
(* builds them, and the missing clients are computed as the drivers do     *)
(***************************************************************************)
\* toplevel_id of a NsightClient: "" unless one is given
SourceToplevelIds == {PyS("")} \cup {PyI(id) : id \in ToplevelIds}

\* source clients are given one toplevel_id, as the drivers give them
SourceRecords(n) ==
    {SetToplevelId([k \in 1..Len(names) |-> NsightClient(k, names[k])], toplevel_id) :
        names \in SeqsUpTo(SourceNames, n), toplevel_id \in SourceToplevelIds}

TargetRecords(n) ==
    {[k \in 1..Len(list) |-> HaloClient(k, list[k][1], list[k][2])] :
        list \in SeqsUpTo(TargetNames \X ToplevelIds, n)}

InitDiff ==
    /\ driver = "diff"
    /\ pc = "diff"
    /\ nsight_toplevel \in {"", "N-sight"}
    /\ comparison_variables = IF nsight_toplevel = ""
                              THEN default_comparison_variables
                              ELSE default_comparison_variables \o <<"toplevel_id">>
    /\ nsight_clients \in SourceRecords(MaxDiffSource)
    /\ halo_clients \in TargetRecords(MaxTarget)
    /\ halo_pages = <<>>
    /\ page_no = 0
    /\ missing_clients = <<>>
    /\ idx = 0
    /\ client_post_success = <<>>
    /\ backup_id = ""
    /\ sql_backup_table = <<>>
    /\ sql_sessions_table = <<>>
    /\ events = <<>>
    /\ exit_code = -1
    /\ DRYRUN = FALSE
    /\ halo_client_token = "none"
    /\ rt = rt_idle

\* missing_clients = [client for client in nsight_clients if client not in halo_clients]
diff_missing_clients ==
    /\ driver = "diff"
    /\ pc = "diff"
    /\ missing_clients' = Missing(nsight_clients, halo_clients, comparison_variables)
    /\ pc' = "diffed"
    /\ UNCHANGED <<driver, nsight_toplevel, nsight_clients, halo_clients, halo_pages, page_no,
                   comparison_variables, idx, client_post_success, backup_id,
                   sql_backup_table, sql_sessions_table, events, exit_code, DRYRUN,
                   halo_client_token, rt>>

NextDiff == diff_missing_clients

SpecDiff == InitDiff /\ [][NextDiff]_vars

(***************************************************************************)
(* A run followed by a second run: the diff, the posts of the first run    *)
(* with their outcomes, and the diff of the second run against the target  *)
(* list that then holds the clients posted with success                    *)
(***************************************************************************)
\* the elements of the list at the positions where keep is true, in order
SubSeqWhere(list, keep) ==
    LET positions == SelectSeq([k \in 1..Len(list) |-> k], LAMBDA k : keep[k])
    IN  [j \in 1..Len(positions) |-> list[positions[j]]]

\* the client that the target lists once the payload was posted with success:
\* the name and the toplevel_id are the posted ones; without a toplevel_id the
\* target files the client under a toplevel of its own choice
CreatedClient(id, payload, target_toplevel) ==
    [kind |-> "HaloClient", id |-> PyI(id), name |-> PyS(payload.name),
     toplevel_id |-> IF payload.toplevel_id = "" THEN PyI(target_toplevel) ELSE PyS(payload.toplevel_id)]

\* what is known of the first run when the second starts
FirstRun(missing, success) ==
    [e |-> "run", k |-> 1, what |-> "posted", row |-> NoRow, missing |-> missing, success |-> success]

\* the source clients carry a toplevel_id exactly when a toplevel name is configured
InitResume ==
    /\ InitDiff
    /\ nsight_toplevel = "" <=> \A k \in 1..Len(nsight_clients) : nsight_clients[k].toplevel_id = PyS("")

\* the post loop of the first run: each missing client is posted with success
\* or not (the post failed, or the client was passed over), and the target
\* creates the clients posted with success
first_run_posts ==
    /\ driver = "diff"
    /\ pc = "diffed"
    /\ \E success \in [1..Len(missing_clients) -> BOOLEAN], target_toplevel \in ToplevelIds :
          LET posted == SubSeqWhere(missing_clients, success)
          IN  /\ client_post_success' = success
              /\ halo_clients' = halo_clients \o
                     [k \in 1..Len(posted) |->
                         CreatedClient(Len(halo_clients) + k, get_post_payload(posted[k]), target_toplevel)]
              /\ events' = <<FirstRun(missing_clients, success)>>
    /\ pc' = "posted"
    /\ UNCHANGED <<driver, nsight_toplevel, nsight_clients, halo_pages, page_no,
                   comparison_variables, missing_clients, idx, backup_id,
                   sql_backup_table, sql_sessions_table, exit_code, DRYRUN,
                   halo_client_token, rt>>

\* the diff of the second run: same source list, the target list as it is now
second_run_diff ==
    /\ driver = "diff"
    /\ pc = "posted"
    /\ missing_clients' = Missing(nsight_clients, halo_clients, comparison_variables)
    /\ client_post_success' = <<>>
    /\ pc' = "resumed"
    /\ UNCHANGED <<driver, nsight_toplevel, nsight_clients, halo_clients, halo_pages, page_no,
                   comparison_variables, idx, backup_id,
                   sql_backup_table, sql_sessions_table, events, exit_code, DRYRUN,
                   halo_client_token, rt>>

NextResume == diff_missing_clients \/ first_run_posts \/ second_run_diff

SpecResume == InitResume /\ [][NextResume]_vars

(***************************************************************************)
(* HaloInterface.get on its own, called as halo_requests_test.py calls it: *)
(* an interface made with fatal_fail True or False                         *)
(***************************************************************************)
TestFatalFail == BOOLEAN

\* api_interface.get(session=api_session, parameters={...}) has been entered
InitGet ==
    /\ driver = "get"
    /\ pc = "clients_get"
    /\ nsight_toplevel = ""
    /\ comparison_variables = default_comparison_variables
    /\ nsight_clients = <<>>
    /\ halo_clients = <<>>
    /\ halo_pages = <<>>
    /\ page_no = 1
    /\ missing_clients = <<>>
    /\ idx = 0
    /\ client_post_success = <<>>
    /\ backup_id = ""
    /\ sql_backup_table = <<>>
    /\ sql_sessions_table = <<>>
    /\ events = <<>>
    /\ exit_code = -1
    /\ DRYRUN = FALSE
    /\ halo_client_token = "token"
    /\ \E fatal_fail \in TestFatalFail :
          rt = RetryEnter("GET mock_endpoint", default_n_retries, {"Exception"}, fatal_fail)

NextGet == request \/ get

SpecGet == InitGet /\ [][NextGet]_vars

(***************************************************************************)
(* nsight_requests.parse_clients on its own, given the responses that      *)
(* nsight_requests_test.py builds: <result><items> elements </items></result> *)
(***************************************************************************)
\* an xml.etree element: tag, text ("" when it has children only), children in document order
Element(tag, text, children) == [tag |-> tag, text |-> text, children |-> children]

\* <client><name>..</name><clientid>..</clientid><device_count>..</device_count></client>,
\* with the name before or after the id
ClientElement(name, clientid, name_first) ==
    LET name_xml == Element("name", name, <<>>)
        clientid_xml == Element("clientid", clientid, <<>>)
    IN  Element("client", "",
                (IF name_first THEN <<name_xml, clientid_xml>> ELSE <<clientid_xml, name_xml>>)
                    \o <<Element("device_count", "60", <<>>)>>)

\* what the source system may list inside <items>: clients, and an element that is not a client
SourceClientIds == {"111111", "222222"}
ItemsElements ==
    {ClientElement(name, clientid, name_first) :
        name \in SourceNames, clientid \in SourceClientIds, name_first \in BOOLEAN}
    \cup {Element("site", "", <<Element("name", "Main", <<>>)>>)}

\* the document of a response whose <items> holds the given elements
ResultDocument(items) == Element("result", "", <<Element("items", "", items)>>)

RECURSIVE Concat(_)
Concat(lists) == IF lists = <<>> THEN <<>> ELSE Head(lists) \o Concat(Tail(lists))

\* Element.findall("./tag1/tag2"): the elements reached by the path, in document order
RECURSIVE findall(_, _)
findall(element, path) ==
    IF path = <<>>
    THEN <<element>>
    ELSE LET matching == SelectSeq(element.children, LAMBDA child : child.tag = Head(path))
         IN  Concat([k \in 1..Len(matching) |-> findall(matching[k], Tail(path))])

NoElement == Element("None", "", <<>>)

\* Element.find("./tag"): the first element reached by the path, None without one
find(element, path) ==
    IF findall(element, path) = <<>> THEN NoElement ELSE findall(element, path)[1]

\* mutant: the two patterns are exchanged
xml_parse_patterns_exchanged == [nsight_id |-> <<"name">>, name |-> <<"clientid">>]

\* xml_parse_patterns = {"nsight_id": "./clientid", "name": "./name"}
xml_parse_patterns == [nsight_id |-> <<"clientid">>, name |-> <<"name">>]

\* nsight_requests.parse_clients: one dict per ./items/client element;
\* .text of a field that is not there raises AttributeError
parse_clients(document) ==
    LET clients_raw == findall(document, <<"items", "client">>)
        complete(client_xml) ==
            \A field \in DOMAIN xml_parse_patterns :
                find(client_xml, xml_parse_patterns[field]) # NoElement
    IN  IF \E k \in 1..Len(clients_raw) : ~complete(clients_raw[k])
        THEN [raises |-> "AttributeError", clients |-> <<>>]
        ELSE [raises |-> "",
              clients |-> [k \in 1..Len(clients_raw) |->
                              [field \in DOMAIN xml_parse_patterns |->
                                  find(clients_raw[k], xml_parse_patterns[field]).text]]]

\* the response and the elements its document was written from
XmlResponse(items) ==
    [e |-> "response", k |-> 0, what |-> "text", row |-> NoRow,
     items |-> items, document |-> ResultDocument(items)]

\* nsight_client_data = nsight_requests.parse_clients(response)
Parsed(result) ==
    [e |-> "parsed", k |-> 0, what |-> "nsight_client_data", row |-> NoRow,
     raises |-> result.raises, clients |-> result.clients]

\* a response of the source system has arrived
InitParse ==
    /\ driver = "parse"
    /\ pc = "parse"
    /\ nsight_toplevel = ""
    /\ comparison_variables = default_comparison_variables
    /\ nsight_clients = <<>>
    /\ halo_clients = <<>>
    /\ halo_pages = <<>>
    /\ page_no = 0
    /\ missing_clients = <<>>
    /\ idx = 0
    /\ client_post_success = <<>>
    /\ backup_id = ""
    /\ sql_backup_table = <<>>
    /\ sql_sessions_table = <<>>
    /\ exit_code = -1
    /\ DRYRUN = FALSE
    /\ halo_client_token = "none"
    /\ rt = rt_idle
    /\ \E items \in SeqsUpTo(ItemsElements, MaxXmlElements) : events = <<XmlResponse(items)>>

parse_clients_call ==
    /\ driver = "parse"
    /\ pc = "parse"
    /\ events' = Append(events, Parsed(parse_clients(events[1].document)))
    /\ pc' = "parsed"
    /\ UNCHANGED <<driver, nsight_toplevel, nsight_clients, halo_clients, halo_pages, page_no,
                   comparison_variables, missing_clients, idx, client_post_success, backup_id,
                   sql_backup_table, sql_sessions_table, exit_code, DRYRUN, halo_client_token, rt>>

NextParse == parse_clients_call

SpecParse == InitParse /\ [][NextParse]_vars

(***************************************************************************)
(* The backup table on its own, used as sql_operations_test.py uses it     *)
(***************************************************************************)
\* an operation on the table and what its caller got
SqlCall(what, row, raises, returns) ==
    [e |-> "sql", k |-> 0, what |-> what, row |-> row, raises |-> raises, returns |-> returns]

TestActions == backup_actions \cup {"forbidden_action"}
TestSessionIds == {SESSION_ID, "ABC123"}

InitSql ==
    /\ driver = "sql"
    /\ pc = "sql"
    /\ nsight_toplevel = ""
    /\ comparison_variables = default_comparison_variables
    /\ nsight_clients = <<>>
    /\ halo_clients = <<>>
    /\ halo_pages = <<>>
    /\ page_no = 0
    /\ missing_clients = <<>>
    /\ idx = 0
    /\ client_post_success = <<>>
    /\ backup_id = ""
    /\ sql_backup_table = <<>>
    /\ sql_sessions_table = <<>>
    /\ events = <<>>
    /\ exit_code = -1
    /\ DRYRUN = FALSE
    /\ halo_client_token = "none"
    /\ rt = rt_idle

\* backup_table.insert(session_id=..., backup_id=..., action=..., old=..., new=..., post_successful=...)
sql_backup_insert ==
    /\ driver = "sql"
    /\ Len(sql_backup_table) < MaxRows
    /\ \E session_id \in TestSessionIds, id \in BackupIds, action \in TestActions, post_successful \in BOOLEAN :
          LET row == BackupRow(session_id, id, action, "", JsonDumps(<<>>), post_successful)
              call == SqlTableBackup_insert(sql_backup_table, row)
          IN  /\ sql_backup_table' = call.table
              /\ backup_id' = id
              /\ events' = <<SqlCall("insert", row, call.raises, PyNone)>>
    /\ UNCHANGED <<driver, pc, nsight_toplevel, nsight_clients, halo_clients, halo_pages, page_no,
                   comparison_variables, missing_clients, idx, client_post_success,
                   sql_sessions_table, exit_code, DRYRUN, halo_client_token, rt>>

\* backup_table.update(column="post_successful", value=1, where='backup_id == "<id>"')
sql_backup_update ==
    /\ driver = "sql"
    /\ \E id \in BackupIds :
          /\ sql_backup_table' = update_row(sql_backup_table, id, TRUE)
          /\ backup_id' = id
          /\ events' = <<SqlCall("update", NoRow, "", update_row_returns(sql_backup_table, id, TRUE))>>
    /\ UNCHANGED <<driver, pc, nsight_toplevel, nsight_clients, halo_clients, halo_pages, page_no,
                   comparison_variables, missing_clients, idx, client_post_success,
                   sql_sessions_table, exit_code, DRYRUN, halo_client_token, rt>>

NextSql == sql_backup_insert \/ sql_backup_update

SpecSql == InitSql /\ [][NextSql]_vars

(***************************************************************************)
(* Properties of the diff and of the client identity (SpecDiff)            *)
(***************************************************************************)
Range(list) == {list[k] : k \in 1..Len(list)}

\* the lower-cased string of a field of a client
Folded(client, field) == Lower(PyStr(GetAttribute(client, field)))

\* positions of the source clients that equal no target client
Unmatched ==
    {i \in 1..Len(nsight_clients) :
        \A j \in 1..Len(halo_clients) :
            ~ClientEq(nsight_clients[i], halo_clients[j], comparison_variables)}

\* C4: the missing list holds exactly the source clients that equal no target
\* client under the active comparison variables, in source order; the diff of
\* a list against itself or against clients equal to it one by one is empty,
\* against an empty target it is the source list, and of an empty source it is empty.
C4_MissingSetCorrect ==
    pc = "diffed" =>
        /\ Len(missing_clients) = Cardinality(Unmatched)
        /\ \A i \in Unmatched :
              missing_clients[Cardinality({h \in Unmatched : h <= i})] = nsight_clients[i]
        /\ Missing(nsight_clients, nsight_clients, comparison_variables) = <<>>
        /\ ( /\ Len(nsight_clients) = Len(halo_clients)
             /\ \A i \in 1..Len(nsight_clients) :
                   ClientEq(nsight_clients[i], halo_clients[i], comparison_variables) )
           => missing_clients = <<>>
        /\ halo_clients = <<>> => missing_clients = nsight_clients
        /\ nsight_clients = <<>> => missing_clients = <<>>

\* the first and the third source client are missing, the second one is not
C4_Witness ==
    /\ pc = "diffed"
    /\ Len(nsight_clients) = 3
    /\ missing_clients = <<nsight_clients[1], nsight_clients[3]>>

\* C5: two clients, of either system, are equal iff the lower-cased strings of
\* every active comparison field agree; with the default fields, clients whose
\* names differ only in letter case are equal whatever their ids and toplevel ids.
C5_EqualityIsCaseInsensitive ==
    \A a \in Range(nsight_clients) \cup Range(halo_clients) :
        \A b \in Range(nsight_clients) \cup Range(halo_clients) :
            /\ ClientEq(a, b, comparison_variables)
                  <=> \A field \in Range(comparison_variables) : Folded(a, field) = Folded(b, field)
            /\ Lower(a.name.s) = Lower(b.name.s) => ClientEq(a, b, default_comparison_variables)
            /\ (pc = "diffed" /\ a \in Range(nsight_clients) /\ b \in Range(halo_clients)
                  /\ \A field \in Range(comparison_variables) : Folded(a, field) = Folded(b, field))
                  => a \notin Range(missing_clients)

\* names that differ in case only, different ids and toplevel ids: not missing
C5_Witness ==
    /\ pc = "diffed"
    /\ comparison_variables = default_comparison_variables
    /\ \E a \in Range(nsight_clients), b \in Range(halo_clients) :
          /\ a.name.s # b.name.s
          /\ Lower(a.name.s) = Lower(b.name.s)
          /\ a.id # b.id
          /\ a.toplevel_id # b.toplevel_id
          /\ a \notin Range(missing_clients)

\* C6: equality is symmetric, for clients of either system and for both
\* settings of the comparison variables (name, or name and toplevel_id).
C6_EqualityIsSymmetric ==
    \A a \in Range(nsight_clients) \cup Range(halo_clients) :
        \A b \in Range(nsight_clients) \cup Range(halo_clients) :
            \A variables \in {default_comparison_variables,
                              default_comparison_variables \o <<"toplevel_id">>} :
                ClientEq(a, b, variables) = ClientEq(b, a, variables)

\* a source and a target client, spelled differently, that are equal both ways with the toplevel compared
C6_Witness ==
    /\ pc = "diffed"
    /\ comparison_variables = default_comparison_variables \o <<"toplevel_id">>
    /\ \E a \in Range(nsight_clients), b \in Range(halo_clients) :
          /\ a.name.s # b.name.s
          /\ ClientEq(a, b, comparison_variables)
          /\ ClientEq(b, a, comparison_variables)

\* the target clients with the name of the source client (letter case aside)
Namesakes(client) == {t \in Range(halo_clients) : Folded(t, "name") = Folded(client, "name")}

\* C7: a source client with a namesake in the target, all of whose namesakes
\* are in another toplevel, is missing when the toplevel is compared, and is
\* not missing when it is not (it is the same client as its namesake).
C7_GroupingTogglesDiff ==
    pc = "diffed" =>
        \A s \in Range(nsight_clients) :
            ( /\ Namesakes(s) # {}
              /\ \A t \in Namesakes(s) : Folded(t, "toplevel_id") # Folded(s, "toplevel_id") )
            => IF comparison_variables = default_comparison_variables
               THEN s \notin Range(missing_clients)
               ELSE s \in Range(missing_clients)

\* the toplevel is compared, and a client is missing though the target has its name
C7_Witness ==
    /\ pc = "diffed"
    /\ comparison_variables = default_comparison_variables \o <<"toplevel_id">>
    /\ \E s \in Range(missing_clients) :
          /\ s.toplevel_id.t = "int"
          /\ Namesakes(s) # {}

(***************************************************************************)
(* Properties of the retry wrapper (SpecRetry)                             *)
(***************************************************************************)
\* every call made so far raised an exception that the wrapper handled:
\* each of them left a "retrying" or a "retry failed" record
EveryCallFailed ==
    /\ rt.calls >= 1
    /\ Len(rt.signals) = rt.calls
    /\ \A k \in 1..Len(rt.signals) : rt.signals[k].signal \in {"retrying", "retry_failed"}

\* C8: with n_retries = 3, an operation that fails with a handled exception on
\* every call is called exactly 3 times (the wrapper goes on as long as there
\* were fewer calls and stops at the third); then the exception of the third
\* call is raised if fatal is true, and None is returned if it is false.
C8_RetryExhaustion ==
    (rt.n_retries = default_n_retries /\ EveryCallFailed) =>
        /\ rt.calls <= default_n_retries
        /\ rt.calls < default_n_retries => rt.status = "running"
        /\ rt.calls = default_n_retries =>
              IF rt.fatal
              THEN /\ rt.status = "raised"
                   /\ rt.result = [kind |-> "exception", call |-> default_n_retries,
                                   class |-> rt.last.class]
              ELSE /\ rt.status = "returned"
                   /\ rt.result.kind = "None"

\* three failed calls of three, fatal: the third exception has been raised
C8_Witness ==
    /\ rt.n_retries = default_n_retries
    /\ EveryCallFailed
    /\ rt.calls = default_n_retries
    /\ rt.fatal
    /\ rt.status = "raised"

\* C9: when call k returns, after k-1 handled failures, the wrapper returns
\* the value of that call, k is at most n_retries, the operation is not called
\* again, and "Retry successful!" is recorded iff k > 1.
C9_SuccessOnAttemptK ==
    /\ [](rt.last.kind = "return" =>
            /\ rt.status = "returned"
            /\ rt.result = [kind |-> rt.last.value, call |-> rt.calls, class |-> "none"]
            /\ rt.calls <= rt.n_retries
            /\ rt.sleeps = rt.calls - 1
            /\ \A k \in 1..(rt.calls - 1) : rt.signals[k].signal = "retrying"
            /\ IF rt.calls > 1
               THEN /\ Len(rt.signals) = rt.calls
                    /\ rt.signals[rt.calls].signal = "retry_successful"
               ELSE rt.signals = <<>>)
    /\ [][rt.last.kind = "return" => rt' = rt]_vars

\* the second call returned, after one handled failure
C9_Witness ==
    /\ rt.last.kind = "return"
    /\ rt.calls = 2
    /\ rt.status = "returned"
    /\ rt.signals[2].signal = "retry_successful"

\* C10: an exception of a class that is not among the handled ones leaves the
\* wrapper as it is, raised by the call that raised it, which is the last
\* call: nothing is recorded for it and no sleep follows it.  When the first
\* call raises it there is one call, no sleep and no record, fatal or not.
C10_UnlistedExceptionPropagates ==
    (rt.last.kind = "raise" /\ "Exception" \notin rt.exceptions /\ rt.last.class \notin rt.exceptions) =>
        /\ rt.status = "raised"
        /\ rt.result = [kind |-> "exception", call |-> rt.calls, class |-> rt.last.class]
        /\ rt.sleeps = rt.calls - 1
        /\ Len(rt.signals) = rt.calls - 1
        /\ \A k \in 1..Len(rt.signals) : rt.signals[k].signal = "retrying"
        /\ rt.attempt = rt.calls

\* the first call raised ValueError, only ConnectionError is handled, fatal is false
C10_Witness ==
    /\ rt.calls = 1
    /\ rt.last = Raise("ValueError")
    /\ rt.exceptions = {"ConnectionError"}
    /\ ~rt.fatal
    /\ rt.status = "raised"
    /\ rt.sleeps = 0

(***************************************************************************)
(* Properties of the drivers' backup trail (Spec)                          *)
(***************************************************************************)
\* positions in the history of the backup rows written, and the position of the i-th of them
BackupInserts == {n \in 1..Len(events) : events[n].what = "backup_insert"}
BackupInsert(i) == CHOOSE n \in BackupInserts : Cardinality({m \in BackupInserts : m <= n}) = i

\* C1: the first POST of a missing client comes after the insert of a backup
\* row for that client with action "insert", the client's serialised
\* payload as new, and post_successful false.
C1_BackupBeforePost ==
    \A n \in 1..Len(events) :
        events[n] = Ev("http", events[n].k, "POST") =>
            \E m \in 1..(n - 1) :
                /\ events[m].what = "backup_insert"
                /\ events[m].k = events[n].k
                /\ events[m].row.action = "insert"
                /\ events[m].row.new = JsonDumps(<<get_post_payload(missing_clients[events[n].k])>>)
                /\ events[m].row.post_successful = FALSE

\* C2: when the insert of the backup row of a client fails, no POST is made
\* for that client, the failure is logged, and the run goes on: it ends only
\* after the last client, with exit code 0.
C2_NoPostAfterBackupFailure ==
    \A n \in 1..Len(events) :
        events[n].what = "backup_insert_failed" =>
            /\ \A m \in 1..Len(events) : events[m] # Ev("http", events[n].k, "POST")
            /\ \E m \in (n + 1)..Len(events) :
                  /\ events[m].e = "log"
                  /\ events[m].k = events[n].k
                  /\ events[m].what \in {"ClientInsertBackupFail", "SqlError"}
            /\ (pc = "exited" /\ exit_code # 0) =>
                  \E m \in (n + 1)..Len(events) : events[m].e = "crash"
            /\ (pc = "exited" /\ events[n].k < Len(missing_clients)) =>
                  \E m \in (n + 1)..Len(events) : events[m].k = events[n].k + 1

\* C3: a backup row is written with post_successful false, and a row of the
\* table has post_successful true only if the POST of the client it was
\* written for was answered with success (so the row of a client whose POST
\* failed on every attempt stays false until the run ends).
C3_PostSuccessfulMeansPosted ==
    /\ \A n \in BackupInserts : events[n].row.post_successful = FALSE
    /\ Len(sql_backup_table) = Cardinality(BackupInserts)
    /\ \A i \in 1..Len(sql_backup_table) :
          sql_backup_table[i].post_successful =>
              \E m \in 1..Len(events) : events[m] = Ev("http", events[BackupInsert(i)].k, "POST ok")

(***************************************************************************)
(* Properties of the runs of the drivers (Spec)                            *)
(***************************************************************************)
\* positions in the history of the calls of self.request made for a listing
\* (a call that the wrapper repeats counts once)
Requests(function) == {n \in 1..Len(events) : events[n].e = "http" /\ events[n].what = function}

\* C11: when every page is answered and page k+1 is the first one with
\* record_count 0, get has called request k+1 times when it ends, and its
\* result is the pages 1..k, each with records, in the order they were asked for.
C11_PaginationResult ==
    /\ \A i \in 1..Len(halo_pages) :
          /\ halo_pages[i].page_no = i
          /\ halo_pages[i].items # <<>>
    /\ (pc \in {"clients_result", "toplevels_result"} /\ rt = rt_idle) =>
          /\ page_no = Len(halo_pages) + 1
          /\ Cardinality(Requests(IF pc = "clients_result" THEN "GET clients" ELSE "GET toplevels"))
                = Len(halo_pages) + 1

\* two pages with records and a third with record_count 0: three requests, two pages
C11_Witness ==
    /\ pc = "clients_result"
    /\ rt = rt_idle
    /\ Len(halo_pages) = 2
    /\ Cardinality(Requests("GET clients")) = 3

\* an exit is the end of the run
ExitIsFinal == pc = "exited" => UNCHANGED vars

PostIssued(history) == \E n \in 1..Len(history) : history[n].e = "http" /\ history[n].what = "POST"

\* C12: when the request for a page of the target client list has failed on
\* every attempt, request raises the connection error (no None is returned),
\* get passes it on without a result, and the driver exits with a nonzero
\* code: no client list, no missing clients, no POST.
C12_TargetFetchIsFatal ==
    /\ []((pc = "clients_get" /\ EveryCallFailed /\ rt.calls = rt.n_retries) =>
            /\ rt.status = "raised"
            /\ rt.result.class \in {"ConnectionError", "requests.ConnectionError"})
    /\ [][(pc = "clients_get" /\ rt.status = "raised") =>
            (pc' = "clients_result" /\ rt' = rt)]_vars
    /\ [][(pc = "clients_result" /\ rt.status = "raised") =>
            /\ pc' = "exited"
            /\ exit_code' > 0
            /\ halo_clients' = <<>>
            /\ missing_clients' = <<>>
            /\ ~PostIssued(events')]_vars
    /\ [][ExitIsFinal]_vars

\* the first page of clients was received, the request for the second failed, the run has exited with 1
C12_Witness ==
    /\ pc = "exited"
    /\ exit_code = 1
    /\ \E n \in 1..Len(events) : events[n] = Ev("http", 2, "GET clients")
    /\ events[Len(events)].what \in {"HaloClientRequestFail", "ConnectionError", "requests.ConnectionError"}
    /\ halo_clients = <<>>

RequestSent(history) == \E n \in 1..Len(history) : history[n].e = "http"

\* C13: when the last of the token requests of a get_token call, like those
\* before it, has failed, with a response that is not ok, get_token raises
\* ConnectionError, after 3 requests, and the driver exits with a nonzero
\* code: no request for the source or the target list and no POST was sent.
C13_AuthenticationFailureIsFatal ==
    /\ []((pc = "token_request" /\ EveryCallFailed /\ rt.calls = rt.n_retries
              /\ rt.last = Raise("ConnectionError")) =>
            /\ rt.calls = default_n_retries
            /\ rt.status = "raised"
            /\ rt.result.class = "ConnectionError")
    /\ [][(pc = "token_request" /\ rt.status = "raised") =>
            /\ pc' = "exited"
            /\ exit_code' > 0
            /\ ~RequestSent(events')
            /\ nsight_clients' = <<>>
            /\ halo_clients' = <<>>]_vars
    /\ [](pc = "exited" /\ halo_client_token = "none" => ~RequestSent(events))

\* sync_clients.py has logged the failure of the token request and exited with 1
C13_Witness ==
    /\ pc = "exited"
    /\ exit_code = 1
    /\ events # <<>>
    /\ events[Len(events)] = Log("HaloTokenRequestFail", 0)
    /\ halo_client_token = "none"

\* the call of get_clients has failed on every attempt (and, not being fatal, has returned None)
SourceFetchFailed == \E n \in 1..Len(events) : events[n] = Ev("retry_failed", 0, "get_clients")

\* C14: when get_clients has failed on every attempt and returned None, the
\* run is not aborted for it: the source list is empty, the target list is
\* requested, no POST is sent, and unless a later fetch fails the run ends
\* with nothing missing and exit code 0.
C14_SourceFetchFailureIsNotFatal ==
    SourceFetchFailed =>
        /\ nsight_clients = <<>>
        /\ missing_clients = <<>>
        /\ ~PostIssued(events)
        /\ pc = "exited" =>
              /\ Requests("GET clients") # {}
              /\ exit_code # 0 =>
                    \E n \in 1..Len(events) :
                        /\ events[n].e = "retry_failed"
                        /\ events[n].what \in {"GET clients", "GET toplevels"}

\* the toplevels were fetched (get has not raised) and none has the configured name
NoToplevelOfThatName ==
    /\ pc = "toplevels_result"
    /\ rt.status # "raised"
    /\ \A n \in 1..Len(Flatten(halo_pages)) : Flatten(halo_pages)[n].name.s # nsight_toplevel

\* C15: when sync_clients.py has a toplevel name configured and none of the
\* toplevels fetched from Halo has that name, the run exits with a nonzero
\* code, its last record being an error record, with no missing clients
\* computed, no POST sent and no row inserted into the backup table.
C15_UnknownToplevelIsFatal ==
    /\ [][(driver = "sync_clients" /\ NoToplevelOfThatName) =>
            /\ pc' = "exited"
            /\ exit_code' > 0
            /\ events'[Len(events')] \in {Log("NoMatchingToplevel", 0), Log("HaloToplevelRequestFail", 0)}
            /\ missing_clients' = <<>>
            /\ ~PostIssued(events')
            /\ sql_backup_table' = <<>>]_vars
    /\ []((\E n \in 1..Len(events) : events[n] = Log("NoMatchingToplevel", 0)) =>
            /\ pc = "exited"
            /\ exit_code = 1
            /\ missing_clients = <<>>
            /\ ~PostIssued(events)
            /\ BackupInserts = {})

\* source and target clients were fetched, then toplevels none of which has
\* the configured name: NoMatchingToplevel is logged and the run has exited with 1
C15_Witness ==
    /\ driver = "sync_clients"
    /\ pc = "exited"
    /\ exit_code = 1
    /\ nsight_clients # <<>>
    /\ halo_clients # <<>>
    /\ events[Len(events)] = Log("NoMatchingToplevel", 0)

\* C16: when the list of missing clients comes out empty the run ends there
\* with exit code 0: no POST has been sent and no row has been inserted into
\* the backup table, and nothing happens after the exit.
C16_NoOpExit ==
    /\ [][(pc = "diff" /\ Missing(nsight_clients, halo_clients, comparison_variables) = <<>>) =>
            /\ missing_clients' = <<>>
            /\ pc' = "exited"
            /\ exit_code' = 0
            /\ ~PostIssued(events')
            /\ sql_backup_table' = <<>>]_vars
    /\ []((pc = "exited" /\ exit_code = 0 /\ missing_clients = <<>>) =>
            /\ ~PostIssued(events)
            /\ BackupInserts = {}
            /\ sql_backup_table = <<>>)
    /\ [][pc = "exited" => UNCHANGED <<events, sql_backup_table, exit_code>>]_vars

\* every N-sight client is in Halo already: NoMissingClients is logged and the run has exited with 0
C16_Witness ==
    /\ pc = "exited"
    /\ exit_code = 0
    /\ nsight_clients # <<>>
    /\ missing_clients = <<>>
    /\ events[Len(events)] = Log("NoMissingClients", 0)

\* position in the history of the record that opens the processing of the
\* i-th missing client (0 when there is none)
ProcessingBegins(i) ==
    LET at == {n \in 1..Len(events) :
                  events[n] \in {Log("ClientInsertBegin", i), Log("AddingNewClient", i)}}
    IN  IF at = {} THEN 0 ELSE CHOOSE n \in at : \A m \in at : n <= m

\* C17: when the run has ended after missing clients were found, every one of
\* them has been processed, one after the other in the order of the list,
\* whatever happened to the ones before it, and the run has not been aborted
\* (exit code 0).
C17_EveryMissingClientIsProcessed ==
    (pc = "exited" /\ missing_clients # <<>>) =>
        /\ \A i \in 1..Len(missing_clients) : ProcessingBegins(i) > 0
        /\ \A i, j \in 1..Len(missing_clients) : i < j => ProcessingBegins(i) < ProcessingBegins(j)
        /\ exit_code = 0

\* the missing clients for which a POST was sent / was answered with success
PostsAttempted == {i \in 1..Len(missing_clients) : \E n \in 1..Len(events) : events[n] = Ev("http", i, "POST")}
PostsSucceeded == {i \in 1..Len(missing_clients) : \E n \in 1..Len(events) : events[n] = Ev("http", i, "POST ok")}

\* C18: the result record written after the post loop gives n_success and
\* n_fail with n_success + n_fail = number of missing clients = number of
\* clients a POST was sent for, n_success being the number of clients whose
\* POST was answered with success.
C18_ReportedCounts ==
    \A n \in 1..Len(events) :
        events[n].what = "ClientInsertResult" =>
            /\ events[n].n_success + events[n].n_fail = Len(missing_clients)
            /\ Cardinality(PostsAttempted) = Len(missing_clients)
            /\ events[n].n_success = Cardinality(PostsSucceeded)
            /\ events[n].n_fail = Cardinality(PostsAttempted \ PostsSucceeded)

\* source [Acme, Globex] against target [acme], no toplevel configured: only
\* Globex is posted, with success, and the record says 1 inserted, 0 failed
C18_Witness ==
    /\ nsight_toplevel = ""
    /\ Len(nsight_clients) = 2
    /\ Len(halo_clients) = 1
    /\ Len(missing_clients) = 1
    /\ Folded(nsight_clients[1], "name") = Folded(halo_clients[1], "name")
    /\ \E n \in 1..Len(events) : events[n] = ClientInsertResult(1, 0)

\* the paths that the run has opened its tables at
ConnectedPaths == {events[n].what : n \in {m \in 1..Len(events) : events[m].e = "sql_connect"}}

\* C19: in a dry run no POST request is sent to Halo for any missing client,
\* and the tables are opened in memory only, so that the session row and the
\* backup rows of the run are in no database file.
C19_DryRunIsolation ==
    DRYRUN =>
        /\ ~PostIssued(events)
        /\ \A i \in 1..Len(missing_clients) : i \notin PostsAttempted \cup PostsSucceeded
        /\ ConnectedPaths \subseteq {":memory:"}
        /\ \A path \in ConnectedPaths :
               /\ DatabaseFile(path, sql_sessions_table) = <<>>
               /\ DatabaseFile(path, sql_backup_table) = <<>>

\* a dry run that has written its session row and a backup row and has come to the post of a missing client
C19_Witness ==
    /\ DRYRUN
    /\ ConnectedPaths = {":memory:"}
    /\ sql_sessions_table # <<>>
    /\ sql_backup_table # <<>>
    /\ missing_clients # <<>>
    /\ pc = "exited"

\* C20: in a dry run the post of a missing client, called with the session
\* and the json payload, returns a response that counts as a success: the
\* driver notes the client as posted with success and goes on as after a
\* real POST answered with 201.
C20_DryRunPostSucceeds ==
    (DRYRUN /\ driver = "sync_clients" /\ pc = "exited" /\ missing_clients # <<>>) =>
        /\ Len(client_post_success) = Len(missing_clients)
        /\ \A i \in 1..Len(client_post_success) : client_post_success[i]
        /\ exit_code = 0

(***************************************************************************)
(* Properties of the backup table (SpecSql)                                *)
(***************************************************************************)
\* the call that the step has made is an insert
InsertCalled == driver = "sql" /\ backup_id' \in BackupIds /\ events'[1].what = "insert"

\* C21: an insert into the backup table with an action other than insert,
\* update, remove raises sqlite3.Error and leaves the table as it was; with
\* one of these actions it raises nothing and the table is the old one with
\* exactly one more row, which holds the values given.
C21_InsertChecksAction ==
    [][InsertCalled =>
          IF events'[1].row.action \in {"insert", "update", "remove"}
          THEN /\ events'[1].raises = ""
               /\ Len(sql_backup_table') = Len(sql_backup_table) + 1
               /\ SubSeq(sql_backup_table', 1, Len(sql_backup_table)) = sql_backup_table
               /\ sql_backup_table'[Len(sql_backup_table')] = events'[1].row
          ELSE /\ events'[1].raises = "sqlite3.Error"
               /\ sql_backup_table' = sql_backup_table]_vars

\* a row was inserted with action "update"; the insert with "forbidden_action" after it has raised
C21_Witness ==
    /\ driver = "sql"
    /\ Len(sql_backup_table) = 1
    /\ sql_backup_table[1].action = "update"
    /\ events[1].what = "insert"
    /\ events[1].row.action = "forbidden_action"
    /\ events[1].raises = "sqlite3.Error"

\* positions of the rows of the backup table that carry the id
RowsWithId(id) == {k \in 1..Len(sql_backup_table) : sql_backup_table[k].backup_id = id}

\* C22: after the update that marks the entry of a backup_id as posted, no
\* error was raised, post_successful is true on the row of that id, which is
\* one row at most, and the caller has got the number of rows changed: 0
\* when no row has the id.
C22_UpdateMarksOneRow ==
    (driver = "sql" /\ events # <<>> /\ events[1].what = "update") =>
        /\ events[1].raises = ""
        /\ \A k \in RowsWithId(backup_id) : sql_backup_table[k].post_successful
        /\ Cardinality(RowsWithId(backup_id)) <= 1
        /\ events[1].returns = PyI(Cardinality(RowsWithId(backup_id)))

Entry(row) == [session_id |-> row.session_id, backup_id |-> row.backup_id,
               action |-> row.action, old |-> row.old, new |-> row.new]

\* C24: during a run the backup table only grows: a step keeps every row
\* that was there, in its place, with its session_id, backup_id, action, old
\* and new as they were, and its post_successful either as it was or turned
\* from false to true.
C24_BackupTableIsAppendOnly ==
    [][/\ Len(sql_backup_table') >= Len(sql_backup_table)
       /\ \A k \in 1..Len(sql_backup_table) :
             /\ Entry(sql_backup_table'[k]) = Entry(sql_backup_table[k])
             /\ sql_backup_table[k].post_successful => sql_backup_table'[k].post_successful]_vars

\* clients.py has backed up two clients and marked the row of the first as posted
C24_Witness ==
    /\ driver = "clients"
    /\ Len(sql_backup_table) = 2
    /\ sql_backup_table[1].post_successful
    /\ sql_backup_table[1].backup_id # sql_backup_table[2].backup_id

\* C25: every row of the backup table written by a run carries the
\* SESSION_ID of the run, and no two rows carry the same backup_id.
C25_BackupIdsAreUnique ==
    driver \in {"sync_clients", "clients"} =>
        /\ \A k \in 1..Len(sql_backup_table) : sql_backup_table[k].session_id = SESSION_ID
        /\ \A k, l \in 1..Len(sql_backup_table) :
               k # l => sql_backup_table[k].backup_id # sql_backup_table[l].backup_id

(***************************************************************************)
(* Properties of the failure paths and of the order of the run (Spec)      *)
(***************************************************************************)
\* the records of the history that report a failure: the warning of the
\* retry wrapper and the ERROR and WARNING records of the script
FailureRecords ==
    {n \in 1..Len(events) :
        \/ events[n].e = "retry_failed"
        \/ /\ events[n].e = "log"
           /\ events[n].what \in {"EnvVariablesMissing", "HaloTokenRequestFail", "NsightClientsRequestFail",
                                  "HaloClientRequestFail", "HaloToplevelRequestFail", "NoMatchingToplevel",
                                  "ClientInsertFail", "ClientInsertBackupFail"}}

\* C26: no failure of a run of sync_clients.py is silent: a run that has
\* exited with a nonzero code has written a record of the failure, a client
\* whose post failed has its ClientInsertFail record, and a backup insert
\* that failed has its ClientInsertBackupFail record.
C26_NoSilentFailure ==
    driver = "sync_clients" =>
        /\ (pc = "exited" /\ exit_code > 0) => FailureRecords # {}
        /\ \A i \in 1..Len(client_post_success) :
               ~client_post_success[i] => \E n \in FailureRecords : events[n] = Log("ClientInsertFail", i)
        /\ \A n \in 1..Len(events) :
               events[n].what = "backup_insert_failed" =>
                   \E m \in FailureRecords : events[m] = Log("ClientInsertBackupFail", events[n].k)

(***************************************************************************)
(* Properties of a second run (SpecResume)                                 *)
(***************************************************************************)
\* the negation of a list of booleans, element by element
Not(flags) == [k \in 1..Len(flags) |-> ~flags[k]]

\* C27 as claimed: the second run finds missing, and so posts, exactly the
\* clients that the first run found missing and did not post with success;
\* after a first run whose posts all succeeded it finds none.
C27_SecondRunPostsTheFailed ==
    pc = "resumed" =>
        /\ missing_clients = SubSeqWhere(events[1].missing, Not(events[1].success))
        /\ (\A k \in 1..Len(events[1].success) : events[1].success[k]) => missing_clients = <<>>

\* the clients of the first run that were not posted with success and equal
\* no client that was
StillMissing(missing, success) ==
    SubSeqWhere(missing,
        [k \in 1..Len(missing) |->
            /\ ~success[k]
            /\ \A j \in 1..Len(missing) :
                   success[j] => ~ClientEq(missing[j], missing[k], comparison_variables)])

\* C27 as amended: the second run finds missing exactly the clients that the
\* first run found missing, did not post with success, and that equal no
\* client it did post with success; after a first run whose posts all
\* succeeded it finds none.
C27_SecondRunPostsTheStillMissing ==
    pc = "resumed" =>
        /\ missing_clients = StillMissing(events[1].missing, events[1].success)
        /\ (\A k \in 1..Len(events[1].success) : events[1].success[k]) => missing_clients = <<>>

\* three clients were missing; the first was posted, the other two were not,
\* and the second run finds exactly these two
C27_Witness ==
    /\ pc = "resumed"
    /\ Len(events[1].missing) = 3
    /\ events[1].success = <<TRUE, FALSE, FALSE>>
    /\ missing_clients = <<events[1].missing[2], events[1].missing[3]>>

\* C28: a run that ends with a nonzero exit code at the check of the
\* settings, at the token request, at the fetch of the target clients or at
\* the toplevels (fetch or name) has sent no POST and has inserted no row
\* into the backup table; sync_clients.py has done neither at any nonzero
\* exit, and nothing is sent or written after the exit.
C28_FatalAbortWritesNothing ==
    /\ [][(pc \in {"env", "token_request", "clients_result", "toplevels_result"}
              /\ pc' = "exited" /\ exit_code' > 0) =>
             /\ ~PostIssued(events')
             /\ \A n \in 1..Len(events') : events'[n].what # "backup_insert"
             /\ sql_backup_table' = <<>>]_vars
    /\ []((driver = "sync_clients" /\ pc = "exited" /\ exit_code > 0) =>
             /\ ~PostIssued(events)
             /\ BackupInserts = {}
             /\ sql_backup_table = <<>>)
    /\ [][pc = "exited" => UNCHANGED <<events, sql_backup_table>>]_vars

\* the source clients were fetched, the fetch of the target clients has failed: exit code 1, nothing written
C28_Witness ==
    /\ pc = "exited"
    /\ exit_code = 1
    /\ nsight_clients # <<>>
    /\ \E n \in 1..Len(events) : events[n] = Log("HaloClientRequestFail", 0)
    /\ ~PostIssued(events)
    /\ sql_backup_table = <<>>

\* the states of the run in their order; a run ends in DONE or in ABORTED
StateOrder ==
    <<"INIT", "AUTHENTICATED", "FETCHED_SOURCE", "FETCHED_TARGET", "GROUPING_RESOLVED",
      "DIFFED", "POSTING", "DONE", "ABORTED">>

Rank(state) == CHOOSE n \in 1..Len(StateOrder) : StateOrder[n] = state

\* the state sync_clients.py has entered at position p: the token is there
\* after the token request, the source clients after the source request, the
\* target clients after the pages of the target, the toplevel id (when one is
\* configured) after the toplevels; the diff and the start of the loop are
\* one step
EnteredState(p, toplevel, code) ==
    CASE p \in {"env", "setup_sql", "get_halo_token", "token_request"} -> "INIT"
      [] p \in {"get_nsight_clients", "nsight_request"} -> "AUTHENTICATED"
      [] p \in {"get_halo_clients", "clients_get", "clients_result"} -> "FETCHED_SOURCE"
      [] p \in {"handle_toplevel", "toplevels_get", "toplevels_result"} -> "FETCHED_TARGET"
      [] p = "diff" -> IF toplevel = "" THEN "FETCHED_TARGET" ELSE "GROUPING_RESOLVED"
      [] p \in {"post", "post_request", "backup"} -> "POSTING"
      [] p = "exited" -> IF code = 0 THEN "DONE" ELSE "ABORTED"

\* the state the step at position p enters when it succeeds
StateBeingEntered(p, toplevel) ==
    CASE p \in {"env", "setup_sql", "get_halo_token", "token_request"} -> "AUTHENTICATED"
      [] p \in {"get_nsight_clients", "nsight_request"} -> "FETCHED_SOURCE"
      [] p \in {"get_halo_clients", "clients_get", "clients_result"} -> "FETCHED_TARGET"
      [] p \in {"handle_toplevel", "toplevels_get", "toplevels_result"} ->
             IF toplevel = "" THEN "DIFFED" ELSE "GROUPING_RESOLVED"
      [] p = "diff" -> "DIFFED"
      [] p \in {"post", "post_request", "backup"} -> "DONE"
      [] p = "exited" -> "DONE"

AbortedFrom == {"INIT", "AUTHENTICATED", "FETCHED_TARGET", "GROUPING_RESOLVED"}

\* C29: sync_clients.py passes through the states in the order INIT,
\* AUTHENTICATED, FETCHED_SOURCE, FETCHED_TARGET, GROUPING_RESOLVED (when a
\* toplevel is configured), DIFFED, POSTING, DONE: no step takes it back to
\* an earlier state (so no state is entered twice or before its predecessor),
\* and a step that ends the run with a nonzero exit code starts in INIT,
\* AUTHENTICATED, FETCHED_TARGET or GROUPING_RESOLVED, or is the step that
\* enters one of them.
C29_DriverFollowsStateOrder ==
    /\ [][driver = "sync_clients" =>
             Rank(EnteredState(pc', nsight_toplevel', exit_code')) >=
                 Rank(EnteredState(pc, nsight_toplevel, exit_code))]_vars
    /\ [][(driver = "sync_clients" /\ pc # "exited" /\ pc' = "exited" /\ exit_code' > 0) =>
             \/ EnteredState(pc, nsight_toplevel, exit_code) \in AbortedFrom
             \/ StateBeingEntered(pc, nsight_toplevel) \in AbortedFrom]_vars

\* the driver is in the loop over the missing clients (post, backup)
Posting == pc \in {"post", "post_request", "backup"} /\ missing_clients # <<>>

\* C30: once the loop over the missing clients has started, no step ends the
\* run with a nonzero exit code, whatever becomes of a POST, of an insert
\* into the backup table or of its update: the run stays in the loop until
\* it ends with exit code 0, and it has ended so when no POST was answered
\* with success.
C30_PostingNeverAborts ==
    /\ [][Posting => (Posting' \/ (pc' = "exited" /\ exit_code' = 0))]_vars
    /\ []((pc = "exited" /\ missing_clients # <<>> /\ PostsSucceeded = {}) => exit_code = 0)

(***************************************************************************)
(* Properties of HaloInterface.get on its own (SpecGet)                    *)
(***************************************************************************)
\* the parameters of the requests of the call, in the order they were sent
\* (a request that the wrapper repeats counts once)
ParamsSent(history) == SelectSeq(history, LAMBDA ev : ev.e = "params")

\* C31: the k-th request of a call of get carries page_no = k, page_size = 50
\* and pageinate = true next to the parameters of the caller, so page_no goes
\* up by exactly 1 from one request to the next, and when request k+1 is sent
\* the k pages before it, each with records, are in the result list.
C31_PageParameters ==
    /\ [](\A k \in 1..Len(ParamsSent(events)) :
            LET params == ParamsSent(events)[k].params
                callers == CallerParameters("GET mock_endpoint")
            IN  /\ DOMAIN params = DOMAIN callers \cup {"pageinate", "page_size", "page_no"}
                /\ params.page_no = PyI(k)
                /\ params.page_size = PyI(50)
                /\ params.pageinate = PyBool(TRUE)
                /\ \A key \in DOMAIN callers : params[key] = callers[key])
    /\ [][Len(ParamsSent(events')) > Len(ParamsSent(events)) =>
            /\ Len(ParamsSent(events')) = Len(ParamsSent(events)) + 1
            /\ Len(halo_pages') = Len(ParamsSent(events))
            /\ \A i \in 1..Len(halo_pages') :
                  halo_pages'[i].page_no = i /\ halo_pages'[i].items # <<>>]_vars

\* the third request has been sent: page_no = 3, two pages in the result list
C31_Witness ==
    /\ driver = "get"
    /\ Len(ParamsSent(events)) = 3
    /\ ParamsSent(events)[3].params.page_no = PyI(3)
    /\ Len(halo_pages) = 2

(***************************************************************************)
(* Further properties of the runs of the drivers (Spec)                    *)
(***************************************************************************)
\* C32: the comparison fields always hold 'name'; they change once at most,
\* from ['name'] to ['name', 'toplevel_id'], in the step that has found the
\* configured toplevel and has given its id to every source client, before
\* the missing clients are computed; the diff of a run with a toplevel
\* configured is made with both fields, and with no toplevel configured the
\* fields stay ['name'].
C32_ComparisonFields ==
    /\ [](\E n \in 1..Len(comparison_variables) : comparison_variables[n] = "name")
    /\ [](nsight_toplevel = "" => comparison_variables = <<"name">>)
    /\ []((nsight_toplevel # "" /\ (pc = "diff" \/ missing_clients # <<>>)) =>
             comparison_variables = <<"name", "toplevel_id">>)
    /\ [][comparison_variables' # comparison_variables =>
             /\ comparison_variables = <<"name">>
             /\ comparison_variables' = <<"name", "toplevel_id">>
             /\ nsight_toplevel # ""
             /\ missing_clients' = <<>>
             /\ \E toplevel \in Toplevels :
                   /\ toplevel.name = PyS(nsight_toplevel)
                   /\ \A k \in 1..Len(nsight_clients') :
                         nsight_clients'[k].toplevel_id = toplevel.toplevel_id]_vars

\* a toplevel is configured and was found: two source clients carry its id,
\* the fields are name and toplevel_id, and missing clients were computed
C32_Witness ==
    /\ nsight_toplevel # ""
    /\ comparison_variables = <<"name", "toplevel_id">>
    /\ Len(nsight_clients) = 2
    /\ \A k \in 1..2 : nsight_clients[k].toplevel_id \in {PyI(1), PyI(2)}
    /\ missing_clients # <<>>

(***************************************************************************)
(* Further properties of the retry wrapper (SpecRetry)                     *)
(***************************************************************************)
\* every call made so far has raised an exception of a listed class (a call
\* that returns, or raises another class, is the last one)
FailedOnEveryAttempt ==
    /\ rt.calls >= 1
    /\ rt.last.kind = "raise"
    /\ Catches(rt.exceptions, rt.last.class)

\* C33: while the operation fails with a listed exception on every attempt,
\* the records of the wrapper are, in this order, one "retrying" record for
\* each of the failures 1..n-1, with the attempt number k and the total n,
\* and after failure n one "retry failed" record with n: no "retrying" record
\* for attempt n, and nothing else.
C33_RetrySignals ==
    (driver = "retry" /\ FailedOnEveryAttempt) =>
        /\ rt.calls <= rt.n_retries
        /\ Len(rt.signals) = rt.calls
        /\ \A k \in 1..rt.calls :
              rt.signals[k] = [signal |-> IF k < rt.n_retries THEN "retrying" ELSE "retry_failed",
                               attempt |-> k, of |-> rt.n_retries]

\* four failures of four: retrying 1, 2, 3 of 4, then retry failed
C33_Witness ==
    /\ driver = "retry"
    /\ FailedOnEveryAttempt
    /\ rt.n_retries = 4
    /\ rt.calls = 4
    /\ rt.signals[3].signal = "retrying"
    /\ rt.signals[4].signal = "retry_failed"

\* C34: a call of the wrapper with n_retries >= 1 ends, after at most
\* n_retries invocations of the operation; it has slept once after every
\* invocation that another one follows, and not after the last one.
C34_BoundedRetry ==
    /\ <>(Finished(rt))
    /\ [](/\ rt.n_retries >= 1
          /\ rt.calls <= rt.n_retries
          /\ rt.status = "running" => rt.sleeps = rt.calls
          /\ Finished(rt) => (rt.calls >= 1 /\ rt.sleeps = rt.calls - 1))

\* four invocations, three sleeps, and the call has ended
C34_Witness ==
    /\ driver = "retry"
    /\ Finished(rt)
    /\ rt.calls = 4
    /\ rt.sleeps = 3

(***************************************************************************)
(* Properties of nsight_requests.parse_clients (SpecParse)                 *)
(***************************************************************************)
\* positions of the client elements among the elements of <items>
ClientPositions(items) == {k \in 1..Len(items) : items[k].tag = "client"}

\* the j-th of them in document order
NthClient(items, j) ==
    items[CHOOSE k \in ClientPositions(items) :
              Cardinality({i \in ClientPositions(items) : i <= k}) = j]

\* the text of the child of that tag
TextOf(element, tag) ==
    LET child == CHOOSE c \in {element.children[n] : n \in 1..Len(element.children)} : c.tag = tag
    IN  child.text

\* C35: parse_clients returns, without an error, one record per client
\* element of <items>, in document order, made of the text of its clientid
\* (as nsight_id) and of its name; with no client element in <items> the
\* result is the empty list.
C35_ParseClients ==
    pc = "parsed" =>
        LET items == events[1].items
            clients == events[2].clients
        IN  /\ events[2].raises = ""
            /\ Len(clients) = Cardinality(ClientPositions(items))
            /\ \A j \in 1..Len(clients) :
                  clients[j] = [nsight_id |-> TextOf(NthClient(items, j), "clientid"),
                                name |-> TextOf(NthClient(items, j), "name")]
            /\ ClientPositions(items) = {} => clients = <<>>

\* two clients, the first written id first and the second name first: two records in that order
C35_Witness ==
    /\ pc = "parsed"
    /\ events[1].items = <<ClientElement("Globex", "222222", FALSE), ClientElement("Acme", "111111", TRUE)>>
    /\ events[2].clients = <<[nsight_id |-> "222222", name |-> "Globex"],
                             [nsight_id |-> "111111", name |-> "Acme"]>>

\* C36: when the first page of the target clients is answered with
\* record_count 0 (get has returned an empty list, no request has failed),
\* sync_clients.py records the failure of the fetch and exits with a nonzero
\* code: no missing clients are computed and no POST is sent, then or later.
C36_EmptyTargetIsAFailure ==
    /\ [][(driver = "sync_clients" /\ pc = "clients_result" /\ rt = rt_idle /\ halo_pages = <<>>) =>
            /\ pc' = "exited"
            /\ exit_code' > 0
            /\ events' = Append(events, Log("HaloClientRequestFail", 0))
            /\ missing_clients' = <<>>
            /\ ~PostIssued(events')]_vars
    /\ [][pc = "exited" => UNCHANGED <<events, missing_clients>>]_vars

\* the source has clients, the one request for target clients was answered
\* with an empty page, and the run has exited with 1
C36_Witness ==
    /\ driver = "sync_clients"
    /\ pc = "exited"
    /\ exit_code = 1
    /\ nsight_clients # <<>>
    /\ Cardinality(Requests("GET clients")) = 1
    /\ \A n \in 1..Len(events) : events[n].e # "retry_failed"
    /\ events[Len(events)] = Log("HaloClientRequestFail", 0)
    /\ ~PostIssued(events)

(***************************************************************************)
(* Further properties of HaloInterface.get on its own (SpecGet)            *)
(***************************************************************************)
\* the lists of pages that get returns for listings that end with a page
\* of record_count 0: pages page, page+1, ..., each with records, after
\* `before` records
RECURSIVE ListingsFrom(_, _)
ListingsFrom(before, page) ==
    {<<>>} \cup
    UNION {{<<[page_no |-> page, items |-> items]>> \o rest :
               rest \in ListingsFrom(before + Len(items), page + 1)} : items \in ClientPages(before)}

\* the request for the page has failed on every attempt, the last one included
RequestFailed == rt.calls = rt.n_retries /\ FailedOnEveryAttempt

\* C37: with fatal_fail = False, when the request for page k has failed on
\* every attempt, request returns None, get raises nothing and sends no
\* further request, and it returns the k-1 pages it has kept: a list that it
\* also returns for a listing of k-1 pages that ended with a record_count 0 page.
C37_NonFatalGetReturnsPartialList ==
    /\ []((driver = "get" /\ ~rt.fatal /\ pc = "clients_get" /\ RequestFailed) =>
            /\ rt.status = "returned"
            /\ rt.result.kind = "None")
    /\ [][(driver = "get" /\ ~rt.fatal /\ pc = "clients_get" /\ RequestFailed) =>
            /\ pc' = "clients_result"
            /\ rt'.status # "raised"
            /\ events' = events
            /\ halo_pages' = halo_pages
            /\ Len(halo_pages') = page_no - 1
            /\ halo_pages' \in ListingsFrom(0, 1)]_vars
    /\ [][(driver = "get" /\ pc = "clients_result") => UNCHANGED vars]_vars

\* the request for page 3 has failed three times; get has returned pages 1 and 2
C37_Witness ==
    /\ driver = "get"
    /\ ~rt.fatal
    /\ pc = "clients_result"
    /\ RequestFailed
    /\ page_no = 3
    /\ Len(halo_pages) = 2

(***************************************************************************)
(* The source request answered with an error status (Spec)                 *)
(***************************************************************************)
\* the source endpoint has answered the request with a status that is not ok
SourceAnsweredBadStatus == pc = "nsight_request" /\ rt.last = Return("bad_response")

SourceFailureLogged == \E n \in 1..Len(events) : events[n] = Log("NsightClientsRequestFail", 0)

\* C38: a response of the source endpoint with an error status is returned
\* by get_clients as it is, without another request for it (answered so at
\* once, one request was made and the wrapper has not slept);
\* sync_clients.py then records NsightClientsRequestFail, takes the source
\* list to be empty and goes on to the fetch of the target clients, which it
\* has requested when it ends.
C38_SourceBadStatus ==
    /\ []((driver = "sync_clients" /\ SourceAnsweredBadStatus) =>
            /\ rt.status = "returned"
            /\ rt.result = [kind |-> "bad_response", call |-> rt.calls, class |-> "none"]
            /\ rt.sleeps = rt.calls - 1
            /\ \A k \in 1..Len(rt.signals) :
                  rt.signals[k].signal = "retrying" => rt.signals[k].attempt < rt.calls)
    /\ [][(driver = "sync_clients" /\ SourceAnsweredBadStatus) =>
            /\ events' = Append(events, Log("NsightClientsRequestFail", 0))
            /\ nsight_clients' = <<>>
            /\ pc' = "get_halo_clients"
            /\ exit_code' = exit_code]_vars
    /\ []((driver = "sync_clients" /\ SourceFailureLogged) =>
            /\ nsight_clients = <<>>
            /\ pc = "exited" => Requests("GET clients") # {})

\* the first request to the source was answered with an error status:
\* get_clients has returned the response after one request, without a sleep
C38_Witness ==
    /\ driver = "sync_clients"
    /\ SourceAnsweredBadStatus
    /\ rt.status = "returned"
    /\ rt.calls = 1
    /\ rt.sleeps = 0
    /\ rt.signals = <<>>

(***************************************************************************)
(* The posts of a run (Spec)                                               *)
(***************************************************************************)
\* the missing clients for which post was called: a POST was sent, or the
\* mock post of a dry run was entered and has raised
PostCalls ==
    {i \in 1..Len(missing_clients) :
        \E n \in 1..Len(events) :
            events[n] \in {Ev("http", i, "POST"), Ev("crash", i, mock_post_raises)}}

\* positions of the source clients that equal no target client
WithoutEqualInTarget ==
    {k \in 1..Len(nsight_clients) : ~ListContains(halo_clients, nsight_clients[k], comparison_variables)}

\* C39: when a run of sync_clients.py that found missing clients has ended,
\* post has been called once for every entry of the missing list, and the
\* list has one entry for every source client without an equal in the
\* target, also for source clients that are equal to each other.
C39_EveryMissingClientIsPosted ==
    (driver = "sync_clients" /\ pc = "exited" /\ missing_clients # <<>>) =>
        /\ Len(missing_clients) = Cardinality(WithoutEqualInTarget)
        /\ Cardinality(PostCalls) = Len(missing_clients)

\* the POSTs of the missing client i that were answered with success
PostsAnswered(i) == {n \in 1..Len(events) : events[n] = Ev("http", i, "POST ok")}

\* C40: a call of post that is not a dry one makes at least one and at most
\* n_retries requests, all for the payload of the same missing client, and
\* none after a request that was answered with success; it returns a
\* response exactly when its last request was answered with success, and
\* None otherwise; so of the requests made for one missing client at most
\* one is answered with success.
C40_PostRequests ==
    /\ [](pc = "post_request" =>
            /\ ~DRYRUN
            /\ rt.calls <= rt.n_retries
            /\ Finished(rt) =>
                  /\ rt.calls >= 1
                  /\ rt.status = "returned"
                  /\ IF rt.last = Return("response")
                     THEN rt.result = [kind |-> "response", call |-> rt.calls, class |-> "none"]
                     ELSE rt.result.kind = "None" /\ rt.calls = rt.n_retries)
    /\ [][(pc = "post_request" /\ pc' = "post_request") =>
            /\ rt.last.kind = "return" => rt' = rt
            /\ rt'.calls \in {rt.calls, rt.calls + 1}
            /\ get_post_payload(missing_clients'[idx']) = get_post_payload(missing_clients[idx])]_vars
    /\ [](\A i \in 1..Len(missing_clients) : Cardinality(PostsAnswered(i)) <= 1)

\* the third request for the second missing client was answered with
\* success, after two that failed: post has returned the response
C40_Witness ==
    /\ pc = "post_request"
    /\ idx = 2
    /\ rt.status = "returned"
    /\ rt.calls = 3
    /\ rt.last = Return("response")
    /\ Cardinality(PostsAnswered(2)) = 1

====
